---------------------------- MODULE Spec2Model ----------------------------
(***************************************************************************)
(* A model of the autoc pipeline of auto-lang (src/autoc): the lexer, the  *)
(* Pratt parser, the Universe of scopes, the Value runtime and the         *)
(* tree-walking evaluator, as run by autoc_run.                            *)
(*                                                                         *)
(* Text is a sequence of one-character strings.  The character '\0' that   *)
(* lexer_peek returns past the end of the input is the string NUL, and the   *)
(* backquote is the string TICK.                                           *)
(* Source positions (Lexer.line, Lexer.at, Token.pos, Expr.pos) and        *)
(* Lexer.last are written by the code and read by no decision of the       *)
(* lexer, the parser or the evaluator; they are left out.                  *)
(* A call that never returns is recorded in a field "hung".                *)
(***************************************************************************)
EXTENDS Integers, Sequences, FiniteSets, TLC

VARIABLES
    lexer,      \* token harness: the Lexer
    toks,       \* token harness: the tokens lexer_next has returned, in order
    pc,         \* autoc_run: where the call is
    src,        \* autoc_run: the source text (the argument code)
    ast,        \* autoc_run: the Code parser_parse returned
    ip,         \* evaler_eval: the number of top-level statements evaluated
    evaler,     \* autoc_run: the Evaler (with its Universe)
    value,      \* evaler_eval: the value of the last statement evaluated
    result,     \* autoc_run: the AutoRunResult returned
    universe,   \* scope harness: the Universe
    act,        \* scope and value harness: the last call, [op, ..., ret]
    given       \* what the source text was written from (no action reads it)

vars == <<lexer, toks, pc, src, ast, ip, evaler, value, result, universe, act, given>>

----------------------------------------------------------------------------
(* Characters: <ctype.h> on the ASCII characters the inputs use.           *)

NUL == "NUL"

\* the backquote character
TICK == "TICK"

DigitChars == <<"0","1","2","3","4","5","6","7","8","9">>

Lower == {"a","b","c","d","e","f","g","h","i","j","k","l","m","n","o","p","q","r","s","t","u","v","w","x","y","z"}

Upper == {"A","B","C","D","E","F","G","H","I","J","K","L","M","N","O","P","Q","R","S","T","U","V","W","X","Y","Z"}

isdigit(c) == \E i \in 1..10 : DigitChars[i] = c

isxdigit(c) == isdigit(c) \/ c \in {"a","b","c","d","e","f","A","B","C","D","E","F"}

isalpha(c) == c \in Lower \/ c \in Upper

isalnum(c) == isalpha(c) \/ isdigit(c)

DigitVal(c) == (CHOOSE i \in 1..10 : DigitChars[i] = c) - 1

\* the decimal text of n >= 0
RECURSIVE DecText(_)
DecText(n) ==
    IF n < 10 THEN <<DigitChars[n + 1]>>
    ELSE DecText(n \div 10) \o <<DigitChars[(n % 10) + 1]>>

----------------------------------------------------------------------------
(* The lexer (lexer.c).  A Lexer is [input, pos, buffer, hung]; pos is the *)
(* C offset (0-based), so the current character is input[pos + 1].         *)

Tok(kind, text) == [kind |-> kind, text |-> text]

lexer_new(input) == [input |-> input, pos |-> 0, buffer |-> <<>>, hung |-> FALSE]

\* lexer_peek with a non-negative offset
lexer_peek(lx, offset) ==
    IF lx.pos + offset < Len(lx.input) THEN lx.input[lx.pos + offset + 1] ELSE NUL

\* lexer_peek(lexer, -1): the offset is a size_t, so pos + offset wraps to
\* pos - 1 when pos > 0 and to SIZE_MAX (past the end) when pos = 0
lexer_peek_back(lx) ==
    IF lx.pos > 0 THEN lx.input[lx.pos] ELSE NUL

lexer_current(lx) == lexer_peek(lx, 0)

lexer_advance(lx) ==
    IF lx.pos < Len(lx.input) THEN [lx EXCEPT !.pos = @ + 1] ELSE lx

\* the text input[from .. to - 1] in C offsets
Slice(input, from, to) == SubSeq(input, from + 1, to)

RECURSIVE lexer_skip_whitespace(_)
lexer_skip_whitespace(lx) ==
    IF lx.pos < Len(lx.input) /\ lexer_current(lx) \in {" ", "\t", "\r"}
    THEN lexer_skip_whitespace(lexer_advance(lx))
    ELSE lx

\* lexer_make_token with the lexer it leaves
Ret(kind, text, lx) == [tok |-> Tok(kind, text), lx |-> lx]

\* the digit loop of lexer_number: the lexer after it, and has_dot
RECURSIVE NumberLoop(_, _, _)
NumberLoop(lx, has_dot, is_hex) ==
    IF lx.pos >= Len(lx.input) THEN [lx |-> lx, has_dot |-> has_dot]
    ELSE LET c == lexer_current(lx) IN
         IF c = "_" THEN NumberLoop(lexer_advance(lx), has_dot, is_hex)
         ELSE IF c = "." /\ ~has_dot
         THEN IF isdigit(lexer_peek(lx, 1))
              THEN NumberLoop(lexer_advance(lx), TRUE, is_hex)
              ELSE [lx |-> lx, has_dot |-> has_dot]
         ELSE IF (IF is_hex THEN isxdigit(c) ELSE isdigit(c))
         THEN NumberLoop(lexer_advance(lx), has_dot, is_hex)
         ELSE [lx |-> lx, has_dot |-> has_dot]

lexer_number(lx) ==
    LET start  == lx.pos
        is_hex == lexer_current(lx) = "0" /\ lexer_peek(lx, 1) = "x"
        lx0    == IF is_hex THEN lexer_advance(lexer_advance(lx)) ELSE lx
        body   == NumberLoop(lx0, FALSE, is_hex)
        lx1    == body.lx
        c      == lexer_current(lx1)
        more   == lx1.pos < Len(lx1.input)
        lx2    == lexer_advance(lx1)
        eight  == lexer_current(lx2) = "8"
        sfx    == IF ~more THEN [kind |-> "INT", lx |-> lx1]
                  ELSE IF c = "f" THEN [kind |-> "FLOAT", lx |-> lx2]
                  ELSE IF c = "d" THEN [kind |-> "DOUBLE", lx |-> lx2]
                  ELSE IF c = "u"
                  THEN IF eight THEN [kind |-> "U8", lx |-> lexer_advance(lx2)]
                       ELSE [kind |-> "UINT", lx |-> lx2]
                  ELSE IF c = "i"
                  THEN IF eight THEN [kind |-> "I8", lx |-> lexer_advance(lx2)]
                       ELSE [kind |-> "INT", lx |-> lx2]
                  ELSE IF body.has_dot THEN [kind |-> "FLOAT", lx |-> lx1]
                  ELSE [kind |-> "INT", lx |-> lx1]
        kind   == IF body.has_dot THEN "FLOAT" ELSE sfx.kind
    IN  Ret(kind, Slice(lx.input, start, sfx.lx.pos), sfx.lx)

\* the scan of lexer_string after the opening quote
RECURSIVE StringLoop(_, _)
StringLoop(lx, start) ==
    IF lx.pos >= Len(lx.input)
    THEN Ret("STR", Slice(lx.input, start, lx.pos), lx)
    ELSE LET c == lexer_current(lx) IN
         IF c = "\""
         THEN Ret("STR", Slice(lx.input, start, lx.pos), lexer_advance(lx))
         ELSE IF c = "\\" /\ lexer_peek(lx, 1) # NUL
         THEN StringLoop(lexer_advance(lexer_advance(lx)), start)
         ELSE StringLoop(lexer_advance(lx), start)

lexer_string(lx) ==
    LET lx1 == lexer_advance(lx) IN StringLoop(lx1, lx1.pos)

\* the scan of lexer_cstring after the opening quote: no escape rule
RECURSIVE CStringLoop(_, _)
CStringLoop(lx, start) ==
    IF lx.pos >= Len(lx.input)
    THEN Ret("CSTR", Slice(lx.input, start, lx.pos), lx)
    ELSE IF lexer_current(lx) = "\""
    THEN Ret("CSTR", Slice(lx.input, start, lx.pos), lexer_advance(lx))
    ELSE CStringLoop(lexer_advance(lx), start)

lexer_cstring(lx) ==
    LET lx1 == lexer_advance(lexer_advance(lx)) IN CStringLoop(lx1, lx1.pos)

\* The token text is the one byte at start; at the end of the input that
\* byte is the terminating '\0'.
lexer_char(lx) ==
    LET lx1   == lexer_advance(lx)
        start == lx1.pos
        text  == IF start < Len(lx.input) THEN <<lx.input[start + 1]>> ELSE <<NUL>>
    IN  IF lx1.pos < Len(lx1.input)
        THEN LET c   == lexer_current(lx1)
                 lx2 == lexer_advance(lx1)
                 lx3 == IF c = "\\" /\ lx2.pos < Len(lx2.input)
                        THEN lexer_advance(lx2) ELSE lx2
                 lx4 == IF lx3.pos < Len(lx3.input) /\ lexer_current(lx3) = "'"
                        THEN lexer_advance(lx3) ELSE lx3
             IN  Ret("CHAR", text, lx4)
        ELSE Ret("CHAR", text, lx1)

lexer_buffer_push(lx, token) == [lx EXCEPT !.buffer = Append(@, token)]

\* "Token first = buffer[0]; shift buffer": the pop that ends lexer_fstr and
\* lexer_comment and begins lexer_next
BufferPop(lx) == [tok |-> Head(lx.buffer), lx |-> [lx EXCEPT !.buffer = Tail(@)]]

RECURSIVE IdentLoop(_)
IdentLoop(lx) ==
    IF lx.pos < Len(lx.input) /\ (isalnum(lexer_current(lx)) \/ lexer_current(lx) = "_")
    THEN IdentLoop(lexer_advance(lx))
    ELSE lx

KeywordKind(text) ==
    CASE text = <<"t","r","u","e">> -> "TRUE"
      [] text = <<"f","a","l","s","e">> -> "FALSE"
      [] text = <<"n","i","l">> -> "NIL"
      [] text = <<"n","u","l","l">> -> "NULL"
      [] text = <<"i","f">> -> "IF"
      [] text = <<"e","l","s","e">> -> "ELSE"
      [] text = <<"f","o","r">> -> "FOR"
      [] text = <<"w","h","e","n">> -> "WHEN"
      [] text = <<"i","s">> -> "IS"
      [] text = <<"v","a","r">> -> "VAR"
      [] text = <<"i","n">> -> "IN"
      [] text = <<"f","n">> -> "FN"
      [] text = <<"t","y","p","e">> -> "TYPE"
      [] text = <<"u","n","i","o","n">> -> "UNION"
      [] text = <<"t","a","g">> -> "TAG"
      [] text = <<"l","e","t">> -> "LET"
      [] text = <<"m","u","t">> -> "MUT"
      [] text = <<"h","a","s">> -> "HAS"
      [] text = <<"u","s","e">> -> "USE"
      [] text = <<"a","s">> -> "AS"
      [] text = <<"e","n","u","m">> -> "ENUM"
      [] text = <<"o","n">> -> "ON"
      [] text = <<"a","l","i","a","s">> -> "ALIAS"
      [] text = <<"b","r","e","a","k">> -> "BREAK"
      [] text = <<"g","r","i","d">> -> "GRID"
      [] OTHER -> "IDENT"

lexer_identifier(lx) ==
    LET start == lx.pos
        c     == lexer_current(lx)
    IN  IF lx.pos < Len(lx.input) /\ ~isalpha(c) /\ c # "_"
        THEN Ret("EOF", <<>>, lx)
        ELSE LET lx1  == IdentLoop(lexer_advance(lx))
                 text == Slice(lx.input, start, lx1.pos)
             IN  Ret(KeywordKind(text), text, lx1)

RECURSIVE LineCommentLoop(_)
LineCommentLoop(lx) ==
    IF lx.pos < Len(lx.input) /\ lexer_current(lx) # "\n"
    THEN LineCommentLoop(lexer_advance(lx))
    ELSE lx

\* the scan of a block comment: the three tokens are buffered when the
\* closing star-slash is found; without it the scan ends in an EOF token
RECURSIVE BlockCommentLoop(_, _)
BlockCommentLoop(lx, start) ==
    IF lx.pos >= Len(lx.input) THEN Ret("EOF", <<>>, lx)
    ELSE IF lexer_current(lx) = "*" /\ lexer_peek(lx, 1) = "/"
    THEN LET b1 == lexer_buffer_push(lx, Tok("COMMENT_CONTENT", Slice(lx.input, start, lx.pos)))
             b2 == lexer_buffer_push(b1, Tok("COMMENT_START", <<"/","*">>))
             b3 == lexer_advance(lexer_advance(b2))
             b4 == lexer_buffer_push(b3, Tok("COMMENT_END", <<"*","/">>))
         IN  BufferPop(b4)
    ELSE BlockCommentLoop(lexer_advance(lx), start)

lexer_comment(lx) ==
    LET lx1 == lexer_advance(lx) IN
    IF lexer_current(lx1) = "/"
    THEN LET lx2 == lexer_advance(lx1)
             lx3 == LineCommentLoop(lx2)
             lx4 == lexer_buffer_push(lx3, Tok("COMMENT_CONTENT", Slice(lx.input, lx2.pos, lx3.pos)))
         IN  Ret("COMMENT_LINE", <<"/","/">>, lx4)
    ELSE IF lexer_current(lx1) = "*"
    THEN LET lx2 == lexer_advance(lx1) IN BlockCommentLoop(lx2, lx2.pos)
    ELSE Ret("DIV", <<"/">>, lx1)

\* the switch of lexer_next over punctuation and operators (longest match);
\* NoMatch when the switch has no case for the character
NoMatch == [tok |-> Tok("NONE", <<>>), lx |-> [hung |-> FALSE]]

Punct(lx) ==
    LET c   == lexer_current(lx)
        lx1 == lexer_advance(lx)
        c1  == lexer_current(lx1)
        lx2 == lexer_advance(lx1)
        c2  == lexer_current(lx2)
        lx3 == lexer_advance(lx2)
    IN  CASE c = "(" -> Ret("LPAREN", <<"(">>, lx1)
          [] c = ")" -> Ret("RPAREN", <<")">>, lx1)
          [] c = "[" -> Ret("LSQUARE", <<"[">>, lx1)
          [] c = "]" -> Ret("RSQUARE", <<"]">>, lx1)
          [] c = "{" -> Ret("LBRACE", <<"{">>, lx1)
          [] c = "}" -> Ret("RBRACE", <<"}">>, lx1)
          [] c = "," -> Ret("COMMA", <<",">>, lx1)
          [] c = ";" -> Ret("SEMI", <<";">>, lx1)
          [] c = ":" -> Ret("COLON", <<":">>, lx1)
          [] c = "|" -> Ret("VBAR", <<"|">>, lx1)
          [] c = "?" -> Ret("QUESTION", <<"?">>, lx1)
          [] c = "@" -> Ret("AT", <<"@">>, lx1)
          [] c = "#" -> Ret("HASH", <<"#">>, lx1)
          [] c = "+" -> IF c1 = "=" THEN Ret("ADDEQ", <<"+","=">>, lx2)
                        ELSE Ret("ADD", <<"+">>, lx1)
          [] c = "-" -> IF c1 = ">" THEN Ret("ARROW", <<"-",">">>, lx2)
                        ELSE IF c1 = "=" THEN Ret("SUBEQ", <<"-","=">>, lx2)
                        ELSE Ret("SUB", <<"-">>, lx1)
          [] c = "*" -> IF c1 = "=" THEN Ret("MULEQ", <<"*","=">>, lx2)
                        ELSE Ret("STAR", <<"*">>, lx1)
          [] c = "=" -> IF c1 = "=" THEN Ret("EQ", <<"=","=">>, lx2)
                        ELSE IF c1 = ">" THEN Ret("DOUBLE_ARROW", <<"=",">">>, lx2)
                        ELSE Ret("ASN", <<"=">>, lx1)
          [] c = "!" -> IF c1 = "=" THEN Ret("NEQ", <<"!","=">>, lx2)
                        ELSE Ret("NOT", <<"!">>, lx1)
          [] c = "<" -> IF c1 = "=" THEN Ret("LE", <<"<","=">>, lx2)
                        ELSE Ret("LT", <<"<">>, lx1)
          [] c = ">" -> IF c1 = "=" THEN Ret("GE", <<">","=">>, lx2)
                        ELSE Ret("GT", <<">">>, lx1)
          [] c = "." -> IF c1 = "."
                        THEN IF c2 = "=" THEN Ret("RANGEEQ", <<".",".","=">>, lx3)
                             ELSE Ret("RANGE", <<".",".">>, lx2)
                        ELSE Ret("DOT", <<".">>, lx1)
          [] OTHER -> NoMatch


RECURSIVE lexer_next(_)

\* the text pending in lexer_fstr, flushed as an FSTR_PART when not empty
FlushPart(lx, text) ==
    IF Len(text) > 0 THEN lexer_buffer_push(lx, Tok("FSTR_PART", text)) ELSE lx

\* The loop of lexer_fstr over the tokens between "${" and the matching "}":
\* while (pos < input_len && depth > 0).  Each turn calls lexer_next and
\* buffers the token it returns.  A turn that neither moves pos nor sees a
\* "}" is repeated for ever: the character under pos stays the same, so depth
\* never falls, and lexer_next goes on answering from the buffer that the
\* turn refills.  Such a turn ends the scan with hung set.
RECURSIVE FstrBraceLoop(_, _)
FstrBraceLoop(lx, depth) ==
    IF ~(lx.pos < Len(lx.input) /\ depth > 0) \/ lx.hung THEN lx
    ELSE LET bc  == lexer_current(lx)
             d1  == IF bc = "{" THEN depth + 1 ELSE IF bc = "}" THEN depth - 1 ELSE depth
             r   == lexer_next(lx)
             lx1 == lexer_buffer_push(r.lx, r.tok)
         IN  IF d1 = 0 THEN lx1
             ELSE IF lx1.pos = lx.pos /\ Len(lx1.buffer) = Len(lx.buffer) /\ bc # "}"
             THEN [lx1 EXCEPT !.hung = TRUE]
             ELSE FstrBraceLoop(lx1, d1)

\* the main loop of lexer_fstr; fstr_note is '$' (lexer_new)
RECURSIVE FstrLoop(_, _, _, _)
FstrLoop(lx, text, end_char, is_tick) ==
    IF lx.hung THEN lx
    ELSE IF lx.pos >= Len(lx.input) THEN FlushPart(lx, text)
    ELSE LET c == lexer_current(lx) IN
         IF c = end_char
         THEN LET lx1 == lexer_advance(FlushPart(lx, text))
              IN  lexer_buffer_push(lx1, Tok("FSTR_END", IF is_tick THEN <<TICK>> ELSE <<"\"">>))
         ELSE IF c = "$"
         THEN LET lx1 == lexer_buffer_push(FlushPart(lx, text), Tok("FSTR_NOTE", <<c>>))
                  lx2 == lexer_advance(lx1)
              IN  IF lexer_current(lx2) = "{"
                  THEN LET lx3 == lexer_advance(lexer_buffer_push(lx2, Tok("LBRACE", <<"{">>)))
                       IN  FstrLoop(FstrBraceLoop(lx3, 1), <<>>, end_char, is_tick)
                  ELSE LET lx3 == IdentLoop(lx2)
                           id  == Tok("IDENT", Slice(lx.input, lx2.pos, lx3.pos))
                       IN  FstrLoop(lexer_buffer_push(lx3, id), <<>>, end_char, is_tick)
         ELSE FstrLoop(lexer_advance(lx), Append(text, c), end_char, is_tick)

lexer_fstr(lx) ==
    LET is_tick  == lexer_current(lx) = TICK
        end_char == IF is_tick THEN TICK ELSE "\""
        lx1      == lexer_advance(IF is_tick THEN lx ELSE lexer_advance(lx))
        lx2      == lexer_buffer_push(lx1, Tok("FSTR_START", IF is_tick THEN <<TICK>> ELSE <<"f","\"">>))
        lx3      == FstrLoop(lx2, <<>>, end_char, is_tick)
    IN  IF lx3.hung THEN Ret("EOF", <<>>, lx3) ELSE BufferPop(lx3)

\* lexer_next: one token.  With hung set the call has not returned and the
\* token of the answer stands for nothing.
lexer_next(lx) ==
    IF lx.hung THEN Ret("EOF", <<>>, lx)
    ELSE IF Len(lx.buffer) > 0 THEN BufferPop(lx)
    ELSE LET l == lexer_skip_whitespace(lx)
             c == lexer_current(l)
         IN  IF l.pos >= Len(l.input) THEN Ret("EOF", <<>>, l)
             ELSE IF c = "\n" THEN Ret("NEWLINE", <<"\n">>, lexer_advance(l))
             ELSE IF isdigit(c) THEN lexer_number(l)
             ELSE IF c = "\""
             THEN IF lexer_peek_back(l) = "c"
                  THEN lexer_cstring([l EXCEPT !.pos = @ - 1])
                  ELSE IF lexer_peek_back(l) = "f"
                  THEN lexer_fstr([l EXCEPT !.pos = @ - 1])
                  ELSE lexer_string(l)
             ELSE IF c = TICK THEN lexer_fstr(l)
             ELSE IF c = "'" THEN lexer_char(l)
             ELSE IF c = "/" THEN lexer_comment(l)
             ELSE IF Punct(l).tok.kind # "NONE" THEN Punct(l)
             ELSE IF isalpha(c) \/ c = "_" THEN lexer_identifier(l)
             ELSE Ret("EOF", <<c>>, lexer_advance(l))

----------------------------------------------------------------------------
(* Numbers.  A double is modelled by the rational it denotes, a record     *)
(* [num, den] in lowest terms with den > 0: exact for the sums, products   *)
(* and quotients of the short decimal literals used here whenever the      *)
(* IEEE result is exact.  Int is int32_t; a uint32_t is held as the        *)
(* int32_t of the same 32 bits.                                            *)

INT_MAX == 2147483647

INT_MIN == -2147483647 - 1

Abs(n) == IF n < 0 THEN -n ELSE n

\* a + b fits int32_t
FitsAdd(a, b) == IF b >= 0 THEN a <= INT_MAX - b ELSE a >= INT_MIN - b

\* the low 32 bits of a + b as an int32_t (two's complement); a uint32_t is
\* held as the int32_t of the same bits, so this is uint32_t addition
AddWrap(a, b) ==
    IF FitsAdd(a, b) THEN a + b
    ELSE IF b >= 0 THEN (a + INT_MIN) + (b + INT_MIN)
    ELSE (a - INT_MIN) + (b - INT_MIN)

NegWrap(a) == IF a = INT_MIN THEN INT_MIN ELSE -a

SubWrap(a, b) == IF b = INT_MIN THEN AddWrap(AddWrap(a, INT_MAX), 1) ELSE AddWrap(a, -b)

FitsSub(a, b) == IF b = INT_MIN THEN a < 0 ELSE FitsAdd(a, -b)

\* a * b fits int32_t
FitsMul(a, b) ==
    IF a = 0 \/ b = 0 THEN TRUE
    ELSE IF a = INT_MIN THEN b = 1
    ELSE IF b = INT_MIN THEN a = 1
    ELSE \/ Abs(a) <= INT_MAX \div Abs(b)
         \/ /\ (a < 0) # (b < 0)
            /\ Abs(a) = (INT_MAX \div Abs(b)) + 1
            /\ INT_MAX % Abs(b) = Abs(b) - 1

\* the low 32 bits of a * b, by doubling
RECURSIVE MulWrap(_, _)
MulWrap(a, b) ==
    IF b = 0 THEN 0
    ELSE IF b = INT_MIN THEN (IF a % 2 = 0 THEN 0 ELSE INT_MIN)
    ELSE IF b < 0 THEN NegWrap(MulWrap(a, -b))
    ELSE LET h == MulWrap(AddWrap(a, a), b \div 2)
         IN  IF b % 2 = 1 THEN AddWrap(a, h) ELSE h

RECURSIVE Gcd(_, _)
Gcd(a, b) == IF b = 0 THEN a ELSE Gcd(b, a % b)

Rat(n, d) ==
    LET g == Gcd(Abs(n), Abs(d))
        sg == IF d < 0 THEN -1 ELSE 1
    IN  [num |-> sg * (n \div g), den |-> sg * (d \div g)]

RatOfInt(i) == [num |-> i, den |-> 1]

RatAdd(a, b) == Rat(a.num * b.den + b.num * a.den, a.den * b.den)

RatSub(a, b) == Rat(a.num * b.den - b.num * a.den, a.den * b.den)

RatMul(a, b) == Rat(a.num * b.num, a.den * b.den)

\* b is not zero
RatDiv(a, b) == Rat(a.num * b.den, a.den * b.num)

RatNeg(a) == [num |-> -a.num, den |-> a.den]

RatLt(a, b) == a.num * b.den < b.num * a.den

\* C division truncates toward zero
TruncDiv(a, b) ==
    LET pos(n, d) == IF n < 0 /\ n % d # 0 THEN (n \div d) + 1 ELSE n \div d
    IN  IF b > 0 THEN pos(a, b)
        ELSE IF b = INT_MIN THEN (IF a = INT_MIN THEN 1 ELSE 0)
        ELSE -pos(a, -b)

\* the digits that open text, read in base ten: [val, len]
RECURSIVE Digits(_, _, _)
Digits(text, i, acc) ==
    IF i <= Len(text) /\ isdigit(text[i])
    THEN Digits(text, i + 1, acc * 10 + DigitVal(text[i]))
    ELSE [val |-> acc, next |-> i]

\* atoi on a token text (which opens with a digit): the leading digits, up
\* to the first character that is none, such as '_', 'x' or a suffix
atoi(text) == Digits(text, 1, 0).val

Pow10(k) == IF k = 0 THEN 1 ELSE IF k = 1 THEN 10 ELSE IF k = 2 THEN 100 ELSE 1000

\* atof on a decimal token text: digits, then '.' and digits when present.
\* Fractions are read to three places, which the literals here never exceed.
atof(text) ==
    LET ip_ == Digits(text, 1, 0)
        dot == ip_.next <= Len(text) /\ text[ip_.next] = "."
        fp  == IF dot THEN Digits(text, ip_.next + 1, 0) ELSE [val |-> 0, next |-> ip_.next + 1]
        k   == fp.next - (ip_.next + 1)
    IN  Rat(ip_.val * Pow10(k) + fp.val, Pow10(k))

----------------------------------------------------------------------------
(* The parser (parser.c).  A Parser is [lexer, current, peek, stuck];      *)
(* stuck is set when a loop of the parser has made a turn that left the    *)
(* parser as it found it, which the loop then repeats for ever.            *)

PREC_NONE == 0

PREC_ASN == 1

PREC_OR == 2

PREC_AND == 3

PREC_CMP == 4

PREC_ADD == 10

PREC_MUL == 11

PREC_UNARY == 12

PREC_CALL == 15

PREC_DOT == 17

RECURSIVE Call(_, _)

parser_new(lx) ==
    LET r1 == Call("lexer_next", <<lx>>)
        r2 == Call("lexer_next", <<r1.lx>>)
    IN  [lexer |-> r2.lx, current |-> r1.tok, peek |-> r2.tok, stuck |-> FALSE]

parser_advance(p) ==
    LET r == Call("lexer_next", <<p.lexer>>)
    IN  [p EXCEPT !.current = p.peek, !.peek = r.tok, !.lexer = r.lx]

parser_check(p, kind) == p.current.kind = kind

\* parser_match and parser_expect leave the same parser: the one advanced
\* when the kind is there, the one given when it is not (parser_expect then
\* prints a message and goes on)
parser_match(p, kind) == IF parser_check(p, kind) THEN parser_advance(p) ELSE p

parser_expect(p, kind) == IF parser_check(p, kind) THEN parser_advance(p) ELSE p

\* get_infix_prec with * and / in the tier of + and -
get_infix_prec_flat(kind) ==
    CASE kind \in {"ASN", "ADDEQ", "SUBEQ", "MULEQ", "DIVEQ"} -> PREC_ASN
      [] kind \in {"EQ", "NEQ", "LT", "GT", "LE", "GE"} -> PREC_CMP
      [] kind \in {"ADD", "SUB", "STAR", "DIV"} -> PREC_ADD
      [] kind \in {"RANGE", "RANGEEQ"} -> PREC_ADD
      [] kind = "DOT" -> PREC_DOT
      [] OTHER -> PREC_NONE

get_infix_prec(kind) ==
    CASE kind \in {"ASN", "ADDEQ", "SUBEQ", "MULEQ", "DIVEQ"} -> PREC_ASN
      [] kind \in {"EQ", "NEQ", "LT", "GT", "LE", "GE"} -> PREC_CMP
      [] kind \in {"ADD", "SUB"} -> PREC_ADD
      [] kind \in {"STAR", "DIV"} -> PREC_MUL
      [] kind \in {"RANGE", "RANGEEQ"} -> PREC_ADD
      [] kind = "DOT" -> PREC_DOT
      [] OTHER -> PREC_NONE

get_postfix_prec(kind) ==
    IF kind \in {"LPAREN", "LSQUARE"} THEN PREC_CALL ELSE PREC_NONE

\* the capacity a list grown by "capacity == 0 ? 8 : capacity * 2" has
\* after count appends
RECURSIVE GrowTo(_, _)
GrowTo(capacity, count) ==
    IF count <= capacity THEN capacity
    ELSE GrowTo(IF capacity = 0 THEN 8 ELSE capacity * 2, count)

ExprNil == [kind |-> "EXPR_NIL"]

PE(e, p) == [e |-> e, p |-> p]

RECURSIVE parser_parse_expr(_)
RECURSIVE parse_expr_primary(_)
RECURSIVE parse_expr_unary(_)
RECURSIVE parse_expr_binary(_, _, _)
RECURSIVE BinaryLoop(_, _, _)
RECURSIVE PostfixLoop(_, _, _)
RECURSIVE ExprListLoop(_, _, _)
RECURSIVE ObjectLoop(_, _)

\* "while (!check(close) && !check(EOF)) { e = parse_expr; append;
\*  if (!match(COMMA)) break; }": the element loop of an array literal,
\* of an array continued after its first element, and of call arguments
ExprListLoop(p, elems, close) ==
    IF parser_check(p, close) \/ parser_check(p, "EOF") THEN [elems |-> elems, p |-> p]
    ELSE LET r == Call("parser_parse_expr", <<p>>) IN
         IF parser_check(r.p, "COMMA")
         THEN Call("ExprListLoop", <<parser_advance(r.p), Append(elems, r.e), close>>)
         ELSE [elems |-> Append(elems, r.e), p |-> r.p]

\* the pair loop of an object literal; a pair with an empty key is dropped
ObjectLoop(p, pairs) ==
    IF parser_check(p, "RBRACE") \/ parser_check(p, "EOF") THEN [pairs |-> pairs, p |-> p]
    ELSE LET keyed == parser_check(p, "IDENT") \/ parser_check(p, "STR")
             key   == IF keyed THEN p.current.text ELSE <<>>
             p1    == IF keyed THEN parser_advance(p) ELSE p
             p2    == parser_expect(p1, "COLON")
             r     == Call("parser_parse_expr", <<p2>>)
             ps    == IF Len(key) > 0 THEN Append(pairs, [key |-> key, value |-> r.e]) ELSE pairs
         IN  IF parser_check(r.p, "COMMA")
             THEN Call("ObjectLoop", <<parser_advance(r.p), ps>>)
             ELSE [pairs |-> ps, p |-> r.p]

parse_expr_call(p, callee) ==
    LET l == Call("ExprListLoop", <<p, <<>>, "RPAREN">>)
    IN  PE([kind |-> "EXPR_CALL", callee |-> callee, args |-> l.elems,
            capacity |-> GrowTo(0, Len(l.elems))],
           parser_expect(l.p, "RPAREN"))

parse_expr_grouping(p) ==
    LET r == Call("parser_parse_expr", <<p>>) IN PE(r.e, parser_expect(r.p, "RPAREN"))

\* A STR or CSTR node keeps the token's text by its pointer (no clone), and
\* parser_match then frees that text: str_val is left dangling (freed).
parse_expr_primary(p) ==
    LET k    == p.current.kind
        text == p.current.text
        p1   == parser_advance(p)
    IN  CASE k = "INT" -> PE([kind |-> "EXPR_INT", int_val |-> atoi(text)], p1)
          [] k = "UINT" -> PE([kind |-> "EXPR_UINT", uint_val |-> atoi(text)], p1)
          [] k \in {"FLOAT", "DOUBLE"} -> PE([kind |-> "EXPR_DOUBLE", float_val |-> atof(text)], p1)
          [] k \in {"TRUE", "FALSE"} -> PE([kind |-> "EXPR_BOOL", bool_val |-> (k = "TRUE")], p1)
          [] k = "NIL" -> PE(ExprNil, p1)
          [] k = "NULL" -> PE([kind |-> "EXPR_NULL"], p1)
          [] k = "STR" -> PE([kind |-> "EXPR_STR", str_val |-> text, freed |-> TRUE], p1)
          [] k = "CSTR" -> PE([kind |-> "EXPR_CSTR", str_val |-> text, freed |-> TRUE], p1)
          [] k = "CHAR" -> PE([kind |-> "EXPR_CHAR", char_val |-> IF Len(text) > 0 THEN text[1] ELSE NUL], p1)
          [] k = "IDENT" -> PE([kind |-> "EXPR_IDENT", ident_val |-> text], p1)
          [] k = "LPAREN" -> Call("parse_expr_grouping", <<p1>>)
          [] k = "LSQUARE" ->
                LET l == Call("ExprListLoop", <<p1, <<>>, "RSQUARE">>)
                IN  PE([kind |-> "EXPR_ARRAY", elems |-> l.elems], parser_expect(l.p, "RSQUARE"))
          [] k = "LBRACE" ->
                LET l == Call("ObjectLoop", <<p1, <<>>>>)
                IN  PE([kind |-> "EXPR_OBJECT", pairs |-> l.pairs], parser_expect(l.p, "RBRACE"))
          [] OTHER -> PE(ExprNil, p)

\* the operator of a prefix + - ! is not kept on the node
parse_expr_unary(p) ==
    IF p.current.kind \in {"ADD", "SUB", "NOT"}
    THEN LET r == Call("parse_expr_unary", <<parser_advance(p)>>)
         IN  PE([kind |-> "EXPR_UNARY", expr |-> r.e], r.p)
    ELSE Call("parse_expr_primary", <<p>>)

\* the first loop of parse_expr_binary: infix operators
BinaryLoop(p, left, prec) ==
    LET op        == p.current.kind
        next_prec == get_infix_prec(op)
    IN  IF next_prec <= prec THEN PE(left, p)
        ELSE LET r  == Call("parse_expr_unary", <<parser_advance(p)>>)
                 r2 == IF next_prec < get_infix_prec(r.p.current.kind)
                       THEN Call("parse_expr_binary", <<r.p, r.e, next_prec>>)
                       ELSE r
             IN  Call("BinaryLoop", <<r2.p, [kind |-> "EXPR_BINA", left |-> left, op |-> op, right |-> r2.e], prec>>)

\* The second loop of parse_expr_binary: postfix ( and [.  After "[" and a
\* first expression, a following "," or "]" makes an array literal of what
\* was parsed, which replaces left; anything else builds an Index node and
\* then, is_array_literal being still false, replaces it by an empty array.
\* "[" before "]" sets is_array_literal and consumes nothing more.
PostfixLoop(p, left, prec) ==
    IF get_postfix_prec(p.current.kind) <= prec THEN PE(left, p)
    ELSE IF parser_check(p, "LPAREN")
    THEN LET r == Call("parse_expr_call", <<parser_advance(p), left>>)
         IN  Call("PostfixLoop", <<r.p, r.e, prec>>)
    ELSE LET p1 == parser_advance(p) IN
         IF parser_check(p1, "RSQUARE") THEN Call("PostfixLoop", <<p1, left, prec>>)
         ELSE LET f == Call("parser_parse_expr", <<p1>>) IN
              IF parser_check(f.p, "COMMA") \/ parser_check(f.p, "RSQUARE")
              THEN LET l == IF parser_check(f.p, "COMMA")
                            THEN Call("ExprListLoop", <<parser_advance(f.p), <<f.e>>, "RSQUARE">>)
                            ELSE [elems |-> <<f.e>>, p |-> f.p]
                   IN  Call("PostfixLoop", <<parser_expect(l.p, "RSQUARE"),
                                   [kind |-> "EXPR_ARRAY", elems |-> l.elems], prec>>)
              ELSE LET p2    == parser_expect(f.p, "RSQUARE")
                       index == [kind |-> "EXPR_INDEX", array |-> left, index |-> f.e]
                       p3    == parser_expect(p2, "RSQUARE")
                   IN  Call("PostfixLoop", <<p3, [kind |-> "EXPR_ARRAY", elems |-> <<>>], prec>>)

parse_expr_binary(p, left, prec) ==
    LET b == Call("BinaryLoop", <<p, left, prec>>) IN Call("PostfixLoop", <<b.p, b.e, prec>>)

parser_parse_expr(p) ==
    LET u == Call("parse_expr_unary", <<p>>) IN Call("parse_expr_binary", <<u.p, u.e, PREC_NONE>>)

StmtNull == [kind |-> "NULL"]

PS(s, p) == [s |-> s, p |-> p]

RECURSIVE SkipNewlines(_)
SkipNewlines(p) ==
    IF parser_check(p, "NEWLINE") THEN SkipNewlines(parser_advance(p)) ELSE p

RECURSIVE parser_parse_stmt(_)
RECURSIVE BlockLoop(_, _)

\* The statement loop of a block: while (!check(RBRACE) && !check(EOF)).
\* parser_parse_stmt is a function of the parser alone, so a turn that
\* leaves the parser unchanged is repeated for ever (each turn appends one
\* more statement node): the parser is stuck.
BlockLoop(p, stmts) ==
    IF p.stuck \/ parser_check(p, "RBRACE") \/ parser_check(p, "EOF")
    THEN [stmts |-> stmts, p |-> p]
    ELSE LET r  == Call("parser_parse_stmt", <<p>>)
             ss == IF r.s = StmtNull THEN stmts ELSE Append(stmts, r.s)
         IN  IF r.p = p THEN [stmts |-> ss, p |-> [p EXCEPT !.stuck = TRUE]]
             ELSE Call("BlockLoop", <<r.p, ss>>)

\* parser_parse_stmt after the blank lines, at a token that is not EOF and
\* opens no declaration
StmtAfterDecl(p) ==
    IF parser_check(p, "IF")
    THEN LET c  == Call("parser_parse_expr", <<parser_advance(p)>>)
             t  == Call("parser_parse_stmt", <<c.p>>)
             el == IF parser_check(t.p, "ELSE")
                   THEN Call("parser_parse_stmt", <<parser_advance(t.p)>>)
                   ELSE PS(StmtNull, t.p)
         IN  PS([kind |-> "STMT_IF", cond |-> c.e, then_body |-> t.s, else_body |-> el.s], el.p)
    ELSE IF parser_check(p, "FOR")
    THEN LET p1   == parser_advance(p)
             name == IF parser_check(p1, "IDENT") THEN p1.current.text ELSE <<>>
             p2   == IF parser_check(p1, "IDENT") THEN parser_advance(p1) ELSE p1
             it   == Call("parser_parse_expr", <<parser_expect(p2, "IN")>>)
             b    == Call("parser_parse_stmt", <<it.p>>)
         IN  PS([kind |-> "STMT_FOR", var_name |-> name, iter |-> it.e, body |-> b.s], b.p)
    ELSE IF parser_check(p, "LBRACE")
    THEN LET l == Call("BlockLoop", <<parser_advance(p), <<>>>>)
         IN  PS([kind |-> "STMT_BLOCK", stmts |-> l.stmts], parser_expect(l.p, "RBRACE"))
    ELSE LET e == Call("parser_parse_expr", <<p>>)
         IN  PS([kind |-> "STMT_EXPR", expr |-> e.e],
                parser_match(parser_match(e.p, "NEWLINE"), "SEMI"))

\* A var, let or mut that no identifier follows is consumed and the
\* statement is parsed from the token after it.
parser_parse_stmt(p0) ==
    LET p == SkipNewlines(p0) IN
    IF parser_check(p, "EOF") THEN PS(StmtNull, p)
    ELSE IF p.current.kind \in {"VAR", "LET", "MUT"}
    THEN LET p1 == parser_advance(p) IN
         IF parser_check(p1, "IDENT")
         THEN LET init == Call("parser_parse_expr", <<parser_expect(parser_advance(p1), "ASN")>>)
              IN  PS([kind |-> "STMT_STORE", name |-> p1.current.text, expr |-> init.e],
                     parser_match(parser_match(init.p, "NEWLINE"), "SEMI"))
         ELSE Call("StmtAfterDecl", <<p1>>)
    ELSE Call("StmtAfterDecl", <<p>>)

\* the loop of parser_parse: while (!check(EOF)); stuck as in BlockLoop
RECURSIVE ParseLoop(_, _)
ParseLoop(p, stmts) ==
    IF p.stuck \/ parser_check(p, "EOF") THEN [stmts |-> stmts, p |-> p]
    ELSE LET r  == Call("parser_parse_stmt", <<p>>)
             ss == IF r.s = StmtNull THEN stmts ELSE Append(stmts, r.s)
         IN  IF r.p = p THEN [stmts |-> ss, p |-> [p EXCEPT !.stuck = TRUE]]
             ELSE Call("ParseLoop", <<r.p, ss>>)

\* parser_new and parser_parse on a source text: the Code, and whether the
\* call returned (it does not when the lexer hung or the parser is stuck)
parser_parse(p) ==
    LET l == Call("ParseLoop", <<p, <<>>>>)
    IN  [stmts |-> l.stmts, returned |-> ~l.p.stuck /\ ~l.p.lexer.hung,
         hung |-> l.p.lexer.hung]

\* Call("f", <<a, b>>) is f(a, b).  The functions of the parser, which
\* recurse into one another, are called through it, and so is lexer_next by
\* them.
Call(fn, a) ==
    CASE fn = "parser_parse_expr" -> parser_parse_expr(a[1])
      [] fn = "parse_expr_primary" -> parse_expr_primary(a[1])
      [] fn = "parse_expr_unary" -> parse_expr_unary(a[1])
      [] fn = "parse_expr_binary" -> parse_expr_binary(a[1], a[2], a[3])
      [] fn = "BinaryLoop" -> BinaryLoop(a[1], a[2], a[3])
      [] fn = "PostfixLoop" -> PostfixLoop(a[1], a[2], a[3])
      [] fn = "ExprListLoop" -> ExprListLoop(a[1], a[2], a[3])
      [] fn = "ObjectLoop" -> ObjectLoop(a[1], a[2])
      [] fn = "parse_expr_call" -> parse_expr_call(a[1], a[2])
      [] fn = "parse_expr_grouping" -> parse_expr_grouping(a[1])
      [] fn = "parser_parse_stmt" -> parser_parse_stmt(a[1])
      [] fn = "StmtAfterDecl" -> StmtAfterDecl(a[1])
      [] fn = "BlockLoop" -> BlockLoop(a[1], a[2])
      [] fn = "ParseLoop" -> ParseLoop(a[1], a[2])
      [] fn = "parser_new" -> parser_new(a[1])
      [] fn = "parser_parse" -> parser_parse(a[1])
      [] fn = "lexer_next" -> lexer_next(a[1])

----------------------------------------------------------------------------
(* The Value runtime (value.c).  A Value is a record with the tag in kind  *)
(* and the payload under the name the union member has in the code.  A     *)
(* double is a rational [num, den] in lowest terms: the arithmetic of the  *)
(* literals used here is exact in both.  A uint32_t is the int32_t of the  *)
(* same bits.  Signed overflow is undefined: its result is the record      *)
(* Undef(w), w being the two's complement result, which the evaluator      *)
(* turns into w or into a trap as the build decides.                       *)

value_nil == [kind |-> "VAL_NIL"]

value_void == [kind |-> "VAL_VOID"]

value_bool(b) == [kind |-> "VAL_BOOL", bool_val |-> b]

value_int(i) == [kind |-> "VAL_INT", int_val |-> i]

value_uint(u) == [kind |-> "VAL_UINT", uint_val |-> u]

value_float(f) == [kind |-> "VAL_DOUBLE", float_val |-> f]

value_byte(b) == [kind |-> "VAL_BYTE", byte_val |-> b]

value_char(c) == [kind |-> "VAL_CHAR", char_val |-> c]

value_str(s) == [kind |-> "VAL_STR", str_val |-> s]

\* values: the elements, in order
value_array(values) == [kind |-> "VAL_ARRAY", values |-> values]

\* pairs: a sequence of [key, value]
value_object(pairs) == [kind |-> "VAL_OBJECT", pairs |-> pairs]

value_range(start, end, eq) ==
    [kind |-> "VAL_RANGE", start |-> start, end |-> end, eq |-> eq]

value_error(msg) == [kind |-> "VAL_ERROR", error_val |-> msg]

\* the result of a signed operation that overflowed
Undef(w) == [kind |-> "UNDEF", wrapped |-> w]

RECURSIVE value_clone(_)
value_clone(v) ==
    CASE v.kind = "VAL_NIL"    -> value_nil
      [] v.kind = "VAL_VOID"   -> value_void
      [] v.kind = "VAL_BOOL"   -> value_bool(v.bool_val)
      [] v.kind = "VAL_BYTE"   -> value_byte(v.byte_val)
      [] v.kind = "VAL_INT"    -> value_int(v.int_val)
      [] v.kind = "VAL_UINT"   -> value_uint(v.uint_val)
      [] v.kind = "VAL_DOUBLE" -> value_float(v.float_val)
      [] v.kind = "VAL_CHAR"   -> value_char(v.char_val)
      [] v.kind = "VAL_STR"    -> value_str(v.str_val)
      [] v.kind = "VAL_ARRAY"  ->
            value_array([i \in 1..Len(v.values) |-> value_clone(v.values[i])])
      [] v.kind = "VAL_RANGE"  -> value_range(v.start, v.end, v.eq)
      [] OTHER                 -> value_nil

value_is_true(v) ==
    CASE v.kind = "VAL_BOOL"   -> v.bool_val
      [] v.kind = "VAL_NIL"    -> FALSE
      [] v.kind = "VAL_INT"    -> v.int_val # 0
      [] v.kind = "VAL_UINT"   -> v.uint_val # 0
      [] v.kind = "VAL_DOUBLE" -> v.float_val.num # 0
      [] v.kind = "VAL_STR"    -> Len(v.str_val) > 0
      [] OTHER                 -> TRUE

value_is_error(v) == v.kind = "VAL_ERROR"

TypeErrorIn == <<"t","y","p","e"," ","e","r","r","o","r"," ","i","n"," ">>

DivisionByZero == <<"d","i","v","i","s","i","o","n"," ","b","y"," ","z","e","r","o">>

\* a < b as uint32_t
ULt(a, b) == IF (a < 0) = (b < 0) THEN a < b ELSE b < 0

\* a / b as uint32_t, b not zero
UDiv(a, b) ==
    IF b < 0 THEN (IF ULt(a, b) THEN 0 ELSE 1)
    ELSE IF a >= 0 THEN a \div b
    ELSE LET half == ((a - INT_MIN) \div 2) + 1073741824
             q    == (half \div b) * 2
             r    == SubWrap(a, MulWrap(q, b))
         IN  IF ULt(r, b) THEN q ELSE q + 1

\* (double) of an int32_t
ToDouble(i) == RatOfInt(i)

\* the operands of a mixed or double operation, as doubles
IsNum(v) == v.kind \in {"VAL_INT", "VAL_DOUBLE"}

AsDouble(v) == IF v.kind = "VAL_INT" THEN ToDouble(v.int_val) ELSE v.float_val

\* one of the two operands is a double, the other an int or a double
Floating(a, b) ==
    /\ IsNum(a) /\ IsNum(b)
    /\ (a.kind = "VAL_DOUBLE" \/ b.kind = "VAL_DOUBLE")

value_add(a, b) ==
    IF a.kind = "VAL_INT" /\ b.kind = "VAL_INT"
    THEN (IF FitsAdd(a.int_val, b.int_val)
          THEN value_int(a.int_val + b.int_val)
          ELSE Undef(AddWrap(a.int_val, b.int_val)))
    ELSE IF a.kind = "VAL_UINT" /\ b.kind = "VAL_UINT"
    THEN value_uint(AddWrap(a.uint_val, b.uint_val))
    ELSE IF Floating(a, b)
    THEN value_float(RatAdd(AsDouble(a), AsDouble(b)))
    ELSE IF a.kind = "VAL_STR" /\ b.kind = "VAL_STR"
    THEN value_str(a.str_val \o b.str_val)
    ELSE value_error(TypeErrorIn \o <<"+">>)

value_sub(a, b) ==
    IF a.kind = "VAL_INT" /\ b.kind = "VAL_INT"
    THEN (IF FitsSub(a.int_val, b.int_val)
          THEN value_int(a.int_val - b.int_val)
          ELSE Undef(SubWrap(a.int_val, b.int_val)))
    ELSE IF a.kind = "VAL_UINT" /\ b.kind = "VAL_UINT"
    THEN value_uint(SubWrap(a.uint_val, b.uint_val))
    ELSE IF Floating(a, b)
    THEN value_float(RatSub(AsDouble(a), AsDouble(b)))
    ELSE value_error(TypeErrorIn \o <<"-">>)

value_mul(a, b) ==
    IF a.kind = "VAL_INT" /\ b.kind = "VAL_INT"
    THEN (IF FitsMul(a.int_val, b.int_val)
          THEN value_int(a.int_val * b.int_val)
          ELSE Undef(MulWrap(a.int_val, b.int_val)))
    ELSE IF a.kind = "VAL_UINT" /\ b.kind = "VAL_UINT"
    THEN value_uint(MulWrap(a.uint_val, b.uint_val))
    ELSE IF Floating(a, b)
    THEN value_float(RatMul(AsDouble(a), AsDouble(b)))
    ELSE value_error(TypeErrorIn \o <<"*">>)

\* value_div without the zero test of the mixed pairings: the quotient is
\* the infinity or NaN of IEEE division
value_div_mixed_unchecked(a, b) ==
    IF a.kind = "VAL_INT" /\ b.kind = "VAL_INT"
    THEN (IF b.int_val = 0 THEN value_error(DivisionByZero)
          ELSE IF a.int_val = INT_MIN /\ b.int_val = -1 THEN Undef(INT_MIN)
          ELSE value_int(TruncDiv(a.int_val, b.int_val)))
    ELSE IF a.kind = "VAL_UINT" /\ b.kind = "VAL_UINT"
    THEN (IF b.uint_val = 0 THEN value_error(DivisionByZero)
          ELSE value_uint(UDiv(a.uint_val, b.uint_val)))
    ELSE IF Floating(a, b)
    THEN (IF AsDouble(b).num = 0
          THEN (IF a.kind = b.kind THEN value_error(DivisionByZero)
                ELSE value_float([num |-> AsDouble(a).num, den |-> 0]))
          ELSE value_float(RatDiv(AsDouble(a), AsDouble(b))))
    ELSE value_error(TypeErrorIn \o <<"/">>)

value_div(a, b) ==
    IF a.kind = "VAL_INT" /\ b.kind = "VAL_INT"
    THEN (IF b.int_val = 0 THEN value_error(DivisionByZero)
          ELSE IF a.int_val = INT_MIN /\ b.int_val = -1 THEN Undef(INT_MIN)
          ELSE value_int(TruncDiv(a.int_val, b.int_val)))
    ELSE IF a.kind = "VAL_UINT" /\ b.kind = "VAL_UINT"
    THEN (IF b.uint_val = 0 THEN value_error(DivisionByZero)
          ELSE value_uint(UDiv(a.uint_val, b.uint_val)))
    ELSE IF Floating(a, b)
    THEN (IF AsDouble(b).num = 0 THEN value_error(DivisionByZero)
          ELSE value_float(RatDiv(AsDouble(a), AsDouble(b))))
    ELSE value_error(TypeErrorIn \o <<"/">>)

value_neg(a) ==
    IF a.kind = "VAL_INT"
    THEN (IF a.int_val = INT_MIN THEN Undef(INT_MIN) ELSE value_int(-a.int_val))
    ELSE IF a.kind = "VAL_DOUBLE" THEN value_float(RatNeg(a.float_val))
    ELSE value_error(TypeErrorIn \o <<"u","n","a","r","y"," ","-">>)

\* value_eq without the comparison of an Int with a Double: values of two
\* kinds are never equal
value_eq_same_kind(a, b) ==
    IF a.kind # b.kind
    THEN value_bool(FALSE)
    ELSE CASE a.kind = "VAL_BOOL"   -> value_bool(a.bool_val = b.bool_val)
           [] a.kind = "VAL_INT"    -> value_bool(a.int_val = b.int_val)
           [] a.kind = "VAL_UINT"   -> value_bool(a.uint_val = b.uint_val)
           [] a.kind = "VAL_DOUBLE" -> value_bool(a.float_val = b.float_val)
           [] a.kind = "VAL_STR"    -> value_bool(a.str_val = b.str_val)
           [] a.kind = "VAL_NIL"    -> value_bool(TRUE)
           [] OTHER                 -> value_bool(FALSE)

value_eq(a, b) ==
    IF a.kind # b.kind
    THEN (IF Floating(a, b) THEN value_bool(AsDouble(a) = AsDouble(b))
          ELSE value_bool(FALSE))
    ELSE CASE a.kind = "VAL_BOOL"   -> value_bool(a.bool_val = b.bool_val)
           [] a.kind = "VAL_INT"    -> value_bool(a.int_val = b.int_val)
           [] a.kind = "VAL_UINT"   -> value_bool(a.uint_val = b.uint_val)
           [] a.kind = "VAL_DOUBLE" -> value_bool(a.float_val = b.float_val)
           [] a.kind = "VAL_STR"    -> value_bool(a.str_val = b.str_val)
           [] a.kind = "VAL_NIL"    -> value_bool(TRUE)
           [] OTHER                 -> value_bool(FALSE)

value_neq(a, b) == value_bool(~value_is_true(value_eq(a, b)))

value_lt(a, b) ==
    IF a.kind = "VAL_INT" /\ b.kind = "VAL_INT"
    THEN value_bool(a.int_val < b.int_val)
    ELSE IF a.kind = "VAL_UINT" /\ b.kind = "VAL_UINT"
    THEN value_bool(ULt(a.uint_val, b.uint_val))
    ELSE IF a.kind = "VAL_DOUBLE" /\ b.kind = "VAL_DOUBLE"
    THEN value_bool(RatLt(a.float_val, b.float_val))
    ELSE value_error(TypeErrorIn \o <<"<">>)

value_gt(a, b) ==
    IF a.kind = "VAL_INT" /\ b.kind = "VAL_INT"
    THEN value_bool(a.int_val > b.int_val)
    ELSE IF a.kind = "VAL_UINT" /\ b.kind = "VAL_UINT"
    THEN value_bool(ULt(b.uint_val, a.uint_val))
    ELSE IF a.kind = "VAL_DOUBLE" /\ b.kind = "VAL_DOUBLE"
    THEN value_bool(RatLt(b.float_val, a.float_val))
    ELSE value_error(TypeErrorIn \o <<">">>)

value_le(a, b) ==
    IF a.kind = "VAL_INT" /\ b.kind = "VAL_INT"
    THEN value_bool(a.int_val <= b.int_val)
    ELSE IF a.kind = "VAL_UINT" /\ b.kind = "VAL_UINT"
    THEN value_bool(~ULt(b.uint_val, a.uint_val))
    ELSE IF a.kind = "VAL_DOUBLE" /\ b.kind = "VAL_DOUBLE"
    THEN value_bool(~RatLt(b.float_val, a.float_val))
    ELSE value_error(TypeErrorIn \o <<"<","=">>)

value_ge(a, b) ==
    IF a.kind = "VAL_INT" /\ b.kind = "VAL_INT"
    THEN value_bool(a.int_val >= b.int_val)
    ELSE IF a.kind = "VAL_UINT" /\ b.kind = "VAL_UINT"
    THEN value_bool(~ULt(a.uint_val, b.uint_val))
    ELSE IF a.kind = "VAL_DOUBLE" /\ b.kind = "VAL_DOUBLE"
    THEN value_bool(~RatLt(a.float_val, b.float_val))
    ELSE value_error(TypeErrorIn \o <<">","=">>)

----------------------------------------------------------------------------
(* The Universe (universe.c).  A Sid is [path]; a path is the sequence of  *)
(* the names the dots of the code's string separate (no name holds a dot), *)
(* so two paths are equal exactly when the strings are.  A name is the     *)
(* text "block_<n>" or "scope_<n>", or what the 512-byte buffer of         *)
(* sid_kid_of has kept of it.  A Scope pointer is the                      *)
(* index of the scope in Universe.scopes; no scope is freed before         *)
(* universe_free.  NoSid is the NULL parent of the global scope.  The      *)
(* static block_counter of universe_enter_scope is kept with the Universe, *)
(* and hung records a universe_set whose walk never ends.                  *)

NoSid == [null |-> TRUE]

\* the NULL that universe_get returns for an unbound name
NULL == [kind |-> "NULL"]

\* what universe_get returns when its walk never ends
Hang == [kind |-> "HANG"]

sid_new(path) == [path |-> path]

\* char buffer[512] of sid_kid_of
SidBufSize == 512

\* the path of the first room characters of the dotted string of path
RECURSIVE CutPath(_, _)
CutPath(path, room) ==
    IF Len(path) = 0 THEN <<>>
    ELSE IF Len(Head(path)) >= room \/ Len(path) = 1
    THEN <<SubSeq(Head(path), 1, IF Len(Head(path)) < room THEN Len(Head(path)) ELSE room)>>
    ELSE <<Head(path)>> \o CutPath(Tail(path), room - Len(Head(path)) - 1)

sid_kid_of(parent, name) ==
    IF Len(parent.path) = 0 THEN [path |-> <<name>>]
    ELSE [path |-> CutPath(Append(parent.path, name), SidBufSize - 1)]

scope_new(kind, sid) ==
    [kind |-> kind, sid |-> sid, parent |-> NoSid, kids |-> <<>>,
     keys |-> <<>>, values |-> <<>>]

\* the index of the first key equal to name, 0 when there is none
KeyIndex(scope, name) ==
    IF \E i \in 1..Len(scope.keys) : scope.keys[i] = name
    THEN CHOOSE i \in 1..Len(scope.keys) :
            /\ scope.keys[i] = name
            /\ \A j \in 1..(i - 1) : scope.keys[j] # name
    ELSE 0

scope_set(scope, name, v) ==
    LET i == KeyIndex(scope, name)
    IN  IF i # 0 THEN [scope EXCEPT !.values[i] = v]
        ELSE [scope EXCEPT !.keys = Append(@, name), !.values = Append(@, v)]

scope_get(scope, name) ==
    LET i == KeyIndex(scope, name)
    IN  IF i # 0 THEN scope.values[i] ELSE NULL

universe_new ==
    [scopes |-> <<scope_new("SCOPE_GLOBAL", sid_new(<<>>))>>, global |-> 1,
     current |-> 1, cur_spot |-> sid_new(<<>>), block_counter |-> 0,
     hung |-> FALSE]

\* the index of the first scope whose sid has the path of sid (astr_eq), 0
\* when there is none
FindScope(u, sid) ==
    IF \E i \in 1..Len(u.scopes) : u.scopes[i].sid.path = sid.path
    THEN CHOOSE i \in 1..Len(u.scopes) :
            /\ u.scopes[i].sid.path = sid.path
            /\ \A j \in 1..(i - 1) : u.scopes[j].sid.path # sid.path
    ELSE 0

universe_enter_scope(u, kind) ==
    LET name == (IF kind = "SCOPE_BLOCK" THEN <<"b","l","o","c","k","_">>
                 ELSE <<"s","c","o","p","e","_">>) \o DecText(u.block_counter)
        new_sid == sid_kid_of(u.cur_spot, name)
        new_scope == [scope_new(kind, new_sid) EXCEPT !.parent = u.cur_spot]
    IN  [u EXCEPT !.block_counter = @ + 1,
                  !.scopes = Append([@ EXCEPT ![u.current].kids = Append(@, new_sid)],
                                    new_scope),
                  !.current = Len(u.scopes) + 1,
                  !.cur_spot = new_sid]

universe_exit_scope(u) ==
    LET parent_sid == u.scopes[u.current].parent
        i == IF parent_sid = NoSid THEN 0 ELSE FindScope(u, parent_sid)
    IN  IF i = 0 THEN u
        ELSE [u EXCEPT !.current = i, !.cur_spot = parent_sid]

\* The walk of universe_get and universe_set from scope c up the parent
\* chain: the index of the nearest scope that binds name, 0 when the chain
\* ends without one, and -1 when a parent is in no entry of scopes (the
\* while loop of the code then never ends).
RECURSIVE Walk(_, _, _)
Walk(u, c, name) ==
    IF KeyIndex(u.scopes[c], name) # 0 THEN c
    ELSE IF u.scopes[c].parent = NoSid THEN 0
    ELSE LET i == FindScope(u, u.scopes[c].parent)
         IN  IF i = 0 THEN -1 ELSE Walk(u, i, name)

universe_get(u, name) ==
    LET c == Walk(u, u.current, name)
    IN  IF c > 0 THEN scope_get(u.scopes[c], name)
        ELSE IF c = 0 THEN NULL
        ELSE Hang

\* universe_set without the walk: the binding is always made in the current
\* scope
universe_set_current(u, name, v) ==
    [u EXCEPT !.scopes[u.current] = scope_set(@, name, v)]

universe_set(u, name, v) ==
    LET c == Walk(u, u.current, name)
    IN  IF c > 0
        THEN [u EXCEPT !.scopes[c].values[KeyIndex(u.scopes[c], name)] = v]
        ELSE IF c = 0
        THEN [u EXCEPT !.scopes[u.current] = scope_set(@, name, v)]
        ELSE [u EXCEPT !.hung = TRUE]

universe_lookup(u, name) == universe_get(u, name)

----------------------------------------------------------------------------
(* The evaluator (eval.c).  An Evaler is [universe, mode, skip_check] and, *)
(* for what the C text leaves to the build and the allocator:              *)
(*   overflow  "wrap" or "trap": what a signed overflow does;              *)
(*   freed     what a read of the freed text of a string literal yields:   *)
(*             "intact" (the old bytes), "empty" or "junk";                *)
(*   fate      "running", "crashed" (the process was killed by a signal)   *)
(*             or "hung" (a loop that never ends was entered);             *)
(*   stdout    the lines printed.                                          *)
(* Every function returns [v, ev]: the Value and the Evaler after it.      *)
(* Once fate is not "running" nothing more is evaluated.                   *)

evaler_new(u, overflow, freed) ==
    [universe |-> u, mode |-> "EVAL_MODE_SCRIPT", skip_check |-> FALSE,
     overflow |-> overflow, freed |-> freed, fate |-> "running",
     stdout |-> <<>>]

VE(v, ev) == [v |-> v, ev |-> ev]

\* the value of no evaluation: the process has stopped
Dead == [kind |-> "DEAD"]

\* the outcome of an arithmetic operation, signed overflow settled
Settle(v, ev) ==
    IF v.kind # "UNDEF" THEN VE(v, ev)
    ELSE IF ev.overflow = "wrap" THEN VE(value_int(v.wrapped), ev)
    ELSE VE(Dead, [ev EXCEPT !.fate = "crashed"])

\* the bytes read through the dangling data pointer of a string literal
FreedRead(ev, text) ==
    CASE ev.freed = "intact" -> text
      [] ev.freed = "empty"  -> <<>>
      [] OTHER               -> <<"?">>

\* universe_set on the Evaler's universe
EvSet(ev, name, v) ==
    LET u == universe_set(ev.universe, name, v)
    IN  [ev EXCEPT !.universe = u,
                   !.fate = IF u.hung THEN "hung" ELSE @]

BinaryOp(op, left, right) ==
    CASE op = "ADD"  -> value_add(left, right)
      [] op = "SUB"  -> value_sub(left, right)
      [] op = "STAR" -> value_mul(left, right)
      [] op = "DIV"  -> value_div(left, right)
      [] op = "EQ"   -> value_eq(left, right)
      [] op = "NEQ"  -> value_neq(left, right)
      [] op = "LT"   -> value_lt(left, right)
      [] op = "GT"   -> value_gt(left, right)
      [] op = "LE"   -> value_le(left, right)
      [] op = "GE"   -> value_ge(left, right)
      [] op \in {"RANGE", "RANGEEQ"} ->
            IF left.kind = "VAL_INT" /\ right.kind = "VAL_INT"
            THEN value_range(left.int_val, right.int_val, op = "RANGEEQ")
            ELSE value_error(TypeErrorIn \o <<"r","a","n","g","e">>)
      [] OTHER       -> value_nil

RECURSIVE evaler_eval_expr(_, _)
RECURSIVE evaler_eval_stmt(_, _)
RECURSIVE ElemsLoop(_, _, _, _)
RECURSIVE PairsLoop(_, _, _, _)
RECURSIVE ArgsLoop(_, _, _, _)
RECURSIVE StmtsLoop(_, _, _, _)
RECURSIVE RangeLoop(_, _, _, _, _, _)
RECURSIVE ArrayLoop(_, _, _, _, _)

\* the loop of EXPR_ARRAY: elems[i..] evaluated onto values
ElemsLoop(ev, elems, i, values) ==
    IF i > Len(elems) THEN VE(value_array(values), ev)
    ELSE LET r == evaler_eval_expr(ev, elems[i])
         IN  ElemsLoop(r.ev, elems, i + 1, Append(values, r.v))

\* the loop of EXPR_OBJECT
PairsLoop(ev, pairs, i, out) ==
    IF i > Len(pairs) THEN VE(value_object(out), ev)
    ELSE LET r == evaler_eval_expr(ev, pairs[i].value)
         IN  PairsLoop(r.ev, pairs, i + 1,
                       Append(out, [key |-> pairs[i].key, value |-> r.v]))

\* the argument loop of EXPR_CALL.  args is [null, vals]: NULL until the
\* realloc, which is made only when arg_count has reached call.capacity;
\* the store of the evaluated argument through a NULL args kills the
\* process.
ArgsLoop(ev, call, i, args) ==
    IF i > Len(call.args) \/ ev.fate # "running" THEN [args |-> args, ev |-> ev]
    ELSE LET arg_count == i - 1
             buf == IF arg_count >= call.capacity
                    THEN [args EXCEPT !.null = FALSE]
                    ELSE args
             r == evaler_eval_expr(ev, call.args[i])
         IN  IF r.ev.fate # "running" THEN [args |-> buf, ev |-> r.ev]
             ELSE IF buf.null
             THEN [args |-> buf, ev |-> [r.ev EXCEPT !.fate = "crashed"]]
             ELSE ArgsLoop(r.ev, call, i + 1,
                           [buf EXCEPT !.vals = Append(@, r.v)])

\* the statement loop of STMT_BLOCK (and of evaler_eval)
StmtsLoop(ev, stmts, i, last) ==
    IF i > Len(stmts) \/ ev.fate # "running" THEN VE(last, ev)
    ELSE LET r == evaler_eval_stmt(ev, stmts[i])
         IN  StmtsLoop(r.ev, stmts, i + 1, r.v)

\* the range loop of STMT_FOR at the test of its condition, i being the
\* int32_t loop variable.  i++ at INT_MAX overflows: wrapped, the
\* inclusive loop then never ends.
RangeLoop(ev, stmt, i, end, eq, last) ==
    IF ev.fate # "running" THEN VE(last, ev)
    ELSE IF ~(IF eq THEN i <= end ELSE i < end) THEN VE(last, ev)
    ELSE LET e1 == EvSet(ev, stmt.var_name, value_int(i))
             r  == evaler_eval_stmt(e1, stmt.body)
         IN  IF r.ev.fate # "running" THEN r
             ELSE IF i = INT_MAX
             THEN VE(Dead, [r.ev EXCEPT !.fate =
                        IF r.ev.overflow = "wrap" THEN "hung" ELSE "crashed"])
             ELSE RangeLoop(r.ev, stmt, i + 1, end, eq, r.v)

\* the array loop of STMT_FOR
ArrayLoop(ev, stmt, values, i, last) ==
    IF i > Len(values) \/ ev.fate # "running" THEN VE(last, ev)
    ELSE LET e1 == EvSet(ev, stmt.var_name, value_clone(values[i]))
             r  == evaler_eval_stmt(e1, stmt.body)
         IN  ArrayLoop(r.ev, stmt, values, i + 1, r.v)

evaler_eval_expr(ev, expr) ==
    IF ev.fate # "running" THEN VE(Dead, ev)
    ELSE CASE expr.kind = "EXPR_INT"    -> VE(value_int(expr.int_val), ev)
      [] expr.kind = "EXPR_UINT"   -> VE(value_uint(expr.uint_val), ev)
      [] expr.kind = "EXPR_DOUBLE" -> VE(value_float(expr.float_val), ev)
      [] expr.kind = "EXPR_BOOL"   -> VE(value_bool(expr.bool_val), ev)
      [] expr.kind = "EXPR_CHAR"   -> VE(value_char(expr.char_val), ev)
      [] expr.kind \in {"EXPR_STR", "EXPR_CSTR"} ->
            VE(value_str(FreedRead(ev, expr.str_val)), ev)
      [] expr.kind = "EXPR_NIL"    -> VE(value_nil, ev)
      [] expr.kind = "EXPR_NULL"   -> VE(value_error(<<"n","u","l","l">>), ev)
      [] expr.kind = "EXPR_IDENT"  ->
            LET v == universe_lookup(ev.universe, expr.ident_val)
            IN  IF v = Hang THEN VE(Dead, [ev EXCEPT !.fate = "hung"])
                ELSE IF v # NULL THEN VE(value_clone(v), ev)
                ELSE VE(value_nil, ev)
      [] expr.kind = "EXPR_UNARY"  ->
            LET operand == evaler_eval_expr(ev, expr.expr)
            IN  IF operand.ev.fate # "running" THEN VE(Dead, operand.ev)
                ELSE Settle(value_neg(operand.v), operand.ev)
      [] expr.kind = "EXPR_BINA"   ->
            LET left  == evaler_eval_expr(ev, expr.left)
                right == evaler_eval_expr(left.ev, expr.right)
            IN  IF right.ev.fate # "running" THEN VE(Dead, right.ev)
                ELSE IF expr.op = "ASN"
                THEN (IF expr.left.kind = "EXPR_IDENT"
                      THEN VE(value_clone(right.v),
                              EvSet(right.ev, expr.left.ident_val,
                                    value_clone(right.v)))
                      ELSE VE(value_error(<<"i","n","v","a","l","i","d"," ",
                                "a","s","s","i","g","n","m","e","n","t"," ",
                                "t","a","r","g","e","t">>), right.ev))
                ELSE Settle(BinaryOp(expr.op, left.v, right.v), right.ev)
      [] expr.kind = "EXPR_ARRAY"  -> ElemsLoop(ev, expr.elems, 1, <<>>)
      [] expr.kind = "EXPR_OBJECT" -> PairsLoop(ev, expr.pairs, 1, <<>>)
      [] expr.kind = "EXPR_CALL"   ->
            LET callee == evaler_eval_expr(ev, expr.callee)
                a == ArgsLoop(callee.ev, expr, 1, [null |-> TRUE, vals |-> <<>>])
            IN  IF a.ev.fate # "running" THEN VE(Dead, a.ev)
                ELSE IF /\ callee.v.kind = "VAL_STR"
                        /\ callee.v.str_val = <<"p","r","i","n","t">>
                \* no argument reaches this point: the line printed is empty
                THEN VE(value_void, [a.ev EXCEPT !.stdout = Append(@, <<>>)])
                ELSE VE(value_nil, a.ev)
      [] expr.kind = "EXPR_INDEX"  ->
            LET array == evaler_eval_expr(ev, expr.array)
                index == evaler_eval_expr(array.ev, expr.index)
            IN  IF index.ev.fate # "running" THEN VE(Dead, index.ev)
                ELSE IF array.v.kind = "VAL_ARRAY" /\ index.v.kind = "VAL_INT"
                THEN LET idx == index.v.int_val
                     IN  IF idx >= 0 /\ idx < Len(array.v.values)
                         THEN VE(value_clone(array.v.values[idx + 1]), index.ev)
                         ELSE VE(value_error(<<"i","n","d","e","x"," ","o","u","t",
                                    " ","o","f"," ","b","o","u","n","d","s">>),
                                 index.ev)
                ELSE VE(value_nil, index.ev)
      [] OTHER -> VE(value_nil, ev)

evaler_eval_stmt(ev, stmt) ==
    IF ev.fate # "running" THEN VE(Dead, ev)
    ELSE CASE stmt.kind = "STMT_EXPR" -> evaler_eval_expr(ev, stmt.expr)
      [] stmt.kind = "STMT_STORE" ->
            LET init == evaler_eval_expr(ev, stmt.expr)
            IN  IF init.ev.fate # "running" THEN VE(Dead, init.ev)
                ELSE VE(value_clone(init.v), EvSet(init.ev, stmt.name, init.v))
      [] stmt.kind = "STMT_BLOCK" ->
            LET e1 == [ev EXCEPT !.universe = universe_enter_scope(@, "SCOPE_BLOCK")]
                r  == StmtsLoop(e1, stmt.stmts, 1, value_void)
            IN  IF r.ev.fate # "running" THEN r
                ELSE VE(r.v, [r.ev EXCEPT !.universe = universe_exit_scope(@)])
      [] stmt.kind = "STMT_IF" ->
            LET cond == evaler_eval_expr(ev, stmt.cond)
            IN  IF cond.ev.fate # "running" THEN VE(Dead, cond.ev)
                ELSE IF value_is_true(cond.v)
                THEN evaler_eval_stmt(cond.ev, stmt.then_body)
                ELSE IF stmt.else_body # StmtNull
                THEN evaler_eval_stmt(cond.ev, stmt.else_body)
                ELSE VE(value_void, cond.ev)
      [] stmt.kind = "STMT_FOR" ->
            LET iter_value == evaler_eval_expr(ev, stmt.iter)
                e1 == [iter_value.ev EXCEPT
                          !.universe = universe_enter_scope(@, "SCOPE_BLOCK")]
                r  == IF iter_value.v.kind = "VAL_RANGE"
                      THEN RangeLoop(e1, stmt, iter_value.v.start,
                                     iter_value.v.end, iter_value.v.eq, value_void)
                      ELSE IF iter_value.v.kind = "VAL_ARRAY"
                      THEN ArrayLoop(e1, stmt, iter_value.v.values, 1, value_void)
                      ELSE VE(value_void, e1)
            IN  IF iter_value.ev.fate # "running" THEN VE(Dead, iter_value.ev)
                ELSE IF r.ev.fate # "running" THEN r
                ELSE VE(r.v, [r.ev EXCEPT !.universe = universe_exit_scope(@)])
      [] OTHER -> VE(value_void, ev)

evaler_eval(ev, code) == StmtsLoop(ev, code.stmts, 1, value_void)

----------------------------------------------------------------------------
(* Source texts.                                                           *)

\* the texts of seq, each followed by sep except the last
RECURSIVE Join(_, _)
Join(seq, sep) ==
    IF Len(seq) = 0 THEN <<>>
    ELSE IF Len(seq) = 1 THEN seq[1]
    ELSE seq[1] \o sep \o Join(Tail(seq), sep)

\* all texts over alphabet of length at most n
RECURSIVE Texts(_, _)
Texts(alphabet, n) ==
    IF n = 0 THEN {<<>>}
    ELSE LET shorter == Texts(alphabet, n - 1)
         IN  shorter \cup {Append(t, c) : t \in shorter, c \in alphabet}

----------------------------------------------------------------------------
(* The token harness: lexer_new on an input, then lexer_next call after    *)
(* call, as test_fstr_simple.c makes them.                                 *)

\* the longest input of the token harness drawn from LexAlphabet
MaxLen == 3

\* the most calls of lexer_next the token harness makes on one input
MaxToks == 10

LexAlphabet == {"f", "\"", "$", "{", "}", "2", " ", "x"}

\* f"hello ${2}"
FstrHello == <<"f","\"","h","e","l","l","o"," ","$","{","2","}","\"">>

\* the operators of more than one character
MultiOps ==
    { <<"=","=">>, <<"!","=">>, <<"<","=">>, <<">","=">>, <<"+","=">>,
      <<"-","=">>, <<"*","=">>, <<"/","=">>, <<".",".">>, <<".",".","=">>,
      <<"-",">">>, <<"=",">">> }

\* an operator at the start of the input: alone, before a name, before
\* another "="
OperatorInputs == { op \o rest : op \in MultiOps, rest \in {<<>>, <<"x">>, <<"=">>} }

\* what follows the opening quote of a string literal: letters, backslashes
\* and quotes, the closing quote among them or missing
StringRests == Texts({"a", "\\", "\""}, MaxLen)

\* the C-string literals c"<rest>
CStringInputs == { <<"c", "\"">> \o rest : rest \in StringRests }

LexInputs ==
    Texts(LexAlphabet, MaxLen) \cup OperatorInputs \cup CStringInputs \cup
    { FstrHello,
      <<"f","\"","a","$","x"," ","b","\"">>,
      <<"f","\"","a","$","{","}","b","\"">>,
      <<"1","+","2","*","3">>,
      <<"v","a","r"," ","a","=","[","1",",","2","]">>,
      <<"\"","a","b">>, <<"'","a">>, <<"@","#">> }

InitLex ==
    /\ \E input \in LexInputs : lexer = lexer_new(input)
    /\ toks = <<>>
    /\ pc = "idle" /\ src = <<>> /\ ast = "none" /\ ip = 0
    /\ evaler = "none" /\ value = "none" /\ result = "none"
    /\ universe = "none" /\ act = "none" /\ given = "none"

\* one call of lexer_next
LexerNext ==
    /\ pc = "idle" /\ universe = "none" /\ act = "none"
    /\ ~lexer.hung
    /\ Len(toks) < MaxToks
    /\ LET r == lexer_next(lexer)
       IN  /\ lexer' = r.lx
           /\ toks' = IF r.lx.hung THEN toks ELSE Append(toks, r.tok)
    /\ UNCHANGED <<pc, src, ast, ip, evaler, value, result, universe, act, given>>

NextLex == LexerNext

SpecLex == InitLex /\ [][NextLex]_vars

\* C6: for every finite input, every call of lexer_next returns a token (no
\* call hangs or fails), format strings with "${" interpolations and
\* malformed input included, so that repeated calls reach an EOF token.
C6_NextAlwaysReturns == ~lexer.hung

\* the kinds the spec gives for f"hello ${2}", EOF last
FstrHelloKinds ==
    <<"FSTR_START", "FSTR_PART", "FSTR_NOTE", "LBRACE", "INT", "RBRACE",
      "FSTR_END", "EOF">>

\* C8: the successive lexer_next calls on f"hello ${2}" return FSTR_START,
\* FSTR_PART("hello "), FSTR_NOTE, LBRACE, INT(2), RBRACE, FSTR_END and then
\* EOF: each token returned so far is the one the sequence has at its place.
C8_FstrHelloTokens ==
    lexer.input = FstrHello =>
        /\ ~lexer.hung
        /\ \A i \in 1..Len(toks) :
              /\ toks[i].kind = FstrHelloKinds[IF i < 8 THEN i ELSE 8]
              /\ (i = 2 => toks[i].text = <<"h","e","l","l","o"," ">>)
              /\ (i = 5 => toks[i].text = <<"2">>)

----------------------------------------------------------------------------
(* autoc_run (main.c) on a source text: lexer_new, parser_new and          *)
(* parser_parse in one step, then evaler_eval one top-level statement at a *)
(* step, then the value_clone into the result.  pc is "start", "eval" or   *)
(* "done", or names why the call never returns: "lex_hung" (lexer_next     *)
(* does not return), "parse_hung" (a loop of the parser does not end),     *)
(* "eval_hung" (a loop of the evaluator does not end), "crashed" (the      *)
(* process was killed).                                                    *)

\* the most elements of the array literals of ArrayProgram
MaxElems == 3

\* the largest bound of the ranges of RangeProgram
MaxRange == 3

\* the longest source text drawn from SrcAlphabet
MaxSrcLen == 3

\* var a=[1,...,n]; a[i]
ArrayProgram(n, i) ==
    <<"v","a","r"," ","a","=","[">>
    \o Join([k \in 1..n |-> DecText(k)], <<",">>)
    \o <<"]",";"," ","a","[">> \o DecText(i) \o <<"]">>

ArrayPrograms == { ArrayProgram(n, i) : n \in 1..MaxElems, i \in 0..(MaxElems - 1) }

\* var a=[1,...,n]; a[-k]
NegIndexProgram(n, k) ==
    <<"v","a","r"," ","a","=","[">>
    \o Join([j \in 1..n |-> DecText(j)], <<",">>)
    \o <<"]",";"," ","a","[","-">> \o DecText(k) \o <<"]">>

NegIndexPrograms == { NegIndexProgram(n, k) : n \in 1..MaxElems, k \in 1..MaxElems }

\* the operators put before a call or an index: the binary + * <, and the
\* unary -, which has no left operand
PostfixOps == { <<"x","+">>, <<"x","*">>, <<"x","<">>, <<"-">> }

\* x op f(y) and x op a[i]
PostfixPrograms ==
    { op \o rest : op \in PostfixOps,
                   rest \in { <<"f","(","y",")">>, <<"a","[","i","]">> } }

\* print(), print(1) and print(1, 2)
PrintPrograms ==
    { <<"p","r","i","n","t","(",")">>,
      <<"p","r","i","n","t","(","1",")">>,
      <<"p","r","i","n","t","(","1",","," ","2",")">> }

\* var i = 7; for v in 0..2 { v }; i  where the loop variable v is i or j
LoopVarProgram(v) ==
    <<"v","a","r"," ","i"," ","="," ","7",";"," ","f","o","r"," ">> \o v \o
    <<" ","i","n"," ","0",".",".","2"," ","{"," ">> \o v \o
    <<" ","}",";"," ","i">>

LoopVarPrograms == { LoopVarProgram(<<"i">>), LoopVarProgram(<<"j">>) }

\* right-hand sides, one at least for every Value kind an expression has
RhsTexts ==
    { <<"2">>, <<"2",".","5">>, <<"t","r","u","e">>, <<"'","c","'">>,
      <<"\"","x","y","\"">>, <<"[","1",",","2","]">>,
      <<"[","1",",","[","2",",","3","]","]">>, <<"{","x",":"," ","1","}">>,
      <<"1","/","0">>, <<"1",".",".","3">>, <<"n","i","l">>, <<"5","u">>,
      <<"n","u","l","l">>, <<"1","+","2","*","3">> }

\* var a=1; a=<rhs>; a
AssignProgram(rhs) ==
    <<"v","a","r"," ","a","=","1",";"," ","a","=">> \o rhs \o <<";"," ","a">>

\* var b=<rhs>; b
StoreProgram(rhs) == <<"v","a","r"," ","b","=">> \o rhs \o <<";"," ","b">>

\* a..b or a..=b
RangeText(a, b, eq) ==
    DecText(a) \o (IF eq THEN <<".",".","=">> ELSE <<".",".">>) \o DecText(b)

\* var s=0; for i in <range> { s=s*5+i+1 }; s
RangeProgram(a, b, eq) ==
    <<"v","a","r"," ","s","=","0",";"," ","f","o","r"," ","i"," ","i","n"," ">>
    \o RangeText(a, b, eq)
    \o <<" ","{"," ","s","=","s","*","5","+","i","+","1"," ","}",";"," ","s">>

\* var n=0; for i in <range> { n=n+1 }; n
CountProgram(a, b, eq) ==
    <<"v","a","r"," ","n","=","0",";"," ","f","o","r"," ","i"," ","i","n"," ">>
    \o RangeText(a, b, eq)
    \o <<" ","{"," ","n","=","n","+","1"," ","}",";"," ","n">>

\* the ranges of RangeProgram, and those of CountProgram that end at INT_MAX
SmallRanges == { <<a, b, eq>> : a \in 0..MaxRange, b \in 0..MaxRange, eq \in BOOLEAN }

EdgeRanges == { <<a, INT_MAX, eq>> : a \in {INT_MAX - 1, INT_MAX}, eq \in BOOLEAN }

RangePrograms ==
    { RangeProgram(r[1], r[2], r[3]) : r \in SmallRanges }
    \cup { CountProgram(r[1], r[2], r[3]) : r \in EdgeRanges }

SrcAlphabet == {"1", ")", "]", ":", "+", ";"}

OtherPrograms ==
    { <<"1","/","0">>, <<"x","=","1","/","0">>, <<"1","/","(","2","-","2",")">>,
      <<"!","t","r","u","e">>, <<"n","u","l","l">>,
      <<"v","a","r"," ","a","=","1",";"," ","{","a","=","2","}",";"," ","a">>,
      <<"f","o","o","(","1",")">>, <<"f","o","o","(",")">>,
      <<"3","i","8">>, <<"a","[","1",":","2","]">>, <<"/","/"," ","c">>,
      <<"f","\"","a","$","{","2","}","\"">>,
      <<"2","1","4","7","4","8","3","6","4","7","+","1">>,
      <<"i","f"," ","1"," ","<"," ","2"," ","{"," ","7"," ","}"," ",
        "e","l","s","e"," ","{"," ","8"," ","}">> }

\* the number literals 1u, 3i8, 2.5 and 1_000
LiteralPrograms ==
    { <<"1","u">>, <<"3","i","8">>, <<"2",".","5">>, <<"1","_","0","0","0">> }

\* var a = {name: "auto", age: 18}; a.<field>
ObjectProgram(field) ==
    <<"v","a","r"," ","a"," ","="," ","{","n","a","m","e",":"," ","\"","a","u","t","o","\"",
      ","," ","a","g","e",":"," ","1","8","}",";"," ","a",".">> \o field

ObjectPrograms == { ObjectProgram(<<"n","a","m","e">>), ObjectProgram(<<"a","g","e">>) }

Programs ==
    ArrayPrograms
    \cup LiteralPrograms
    \cup ObjectPrograms
    \cup NegIndexPrograms
    \cup PostfixPrograms
    \cup PrintPrograms
    \cup LoopVarPrograms
    \cup { AssignProgram(t) : t \in RhsTexts }
    \cup { StoreProgram(t) : t \in RhsTexts }
    \cup RangePrograms
    \cup Texts(SrcAlphabet, MaxSrcLen)
    \cup OtherPrograms

\* autoc_run is about to be called on src
Called ==
    /\ pc = "start" /\ ast = "none" /\ ip = 0
    /\ evaler = "none" /\ value = "none" /\ result = "none"
    /\ lexer = "none" /\ toks = <<>> /\ universe = "none" /\ act = "none"

Init == src \in Programs /\ given = "none" /\ Called

\* autoc_run once parser_parse has returned code, or has not: universe_new,
\* evaler_new.  What the build does on undefined behaviour is fixed here,
\* for the whole run.
Parsed(code) ==
    IF ~code.returned
    THEN /\ pc' = IF code.hung THEN "lex_hung" ELSE "parse_hung"
         /\ UNCHANGED <<ast, evaler, value>>
    ELSE /\ pc' = "eval"
         /\ ast' = [stmts |-> code.stmts]
         /\ \E overflow \in {"wrap", "trap"}, freed \in {"intact", "empty", "junk"} :
               evaler' = evaler_new(universe_new, overflow, freed)
         /\ value' = value_void

\* lexer_new, parser_new, parser_parse
Parse ==
    /\ pc = "start"
    /\ Parsed(Call("parser_parse", <<Call("parser_new", <<lexer_new(src)>>)>>))
    /\ UNCHANGED <<lexer, toks, src, ip, result, universe, act, given>>

\* evaler_eval after a turn of its loop that gave r
Evaluated(r) ==
    /\ evaler' = r.ev
    /\ value' = r.v
    /\ pc' = CASE r.ev.fate = "running" -> "eval"
               [] r.ev.fate = "crashed" -> "crashed"
               [] OTHER                 -> "eval_hung"

\* one turn of the loop of evaler_eval
EvalStmt ==
    /\ pc = "eval"
    /\ ip < Len(ast.stmts)
    /\ Evaluated(evaler_eval_stmt(evaler, ast.stmts[ip + 1]))
    /\ ip' = ip + 1
    /\ UNCHANGED <<lexer, toks, src, ast, result, universe, act, given>>

\* result.value = value_clone(value); return result
Finish ==
    /\ pc = "eval"
    /\ ip = Len(ast.stmts)
    /\ result' = [result |-> "AUTOC_OK", value |-> value_clone(value),
                  error_msg |-> NULL]
    /\ pc' = "done"
    /\ UNCHANGED <<lexer, toks, src, ast, ip, evaler, value, universe, act, given>>

Next == Parse \/ EvalStmt \/ Finish

Spec == Init /\ [][Next]_vars

----------------------------------------------------------------------------
(* Claims about autoc_run.                                                 *)

\* C1: the program "var a=[1,...,n]; a[i]" with 0 <= i < n, lexed, parsed
\* and evaluated, yields the i-th element of the array, which is i + 1.
C1_IndexYieldsElement ==
    \A n \in 1..MaxElems : \A i \in 0..(n - 1) :
        (pc = "done" /\ src = ArrayProgram(n, i)) => result.value = value_int(i + 1)

\* the statement is an assignment "x = e" or a store "var x = e"
IsAssign(stmt) ==
    \/ stmt.kind = "STMT_STORE"
    \/ /\ stmt.kind = "STMT_EXPR"
       /\ stmt.expr.kind = "EXPR_BINA"
       /\ stmt.expr.op = "ASN"
       /\ stmt.expr.left.kind = "EXPR_IDENT"

AssignName(stmt) ==
    IF stmt.kind = "STMT_STORE" THEN stmt.name ELSE stmt.expr.left.ident_val

AssignRhs(stmt) ==
    IF stmt.kind = "STMT_STORE" THEN stmt.expr ELSE stmt.expr.right

\* C2: when a top-level assignment or store "x = e" has been evaluated, the
\* statement has returned the value of e and a lookup of x yields the value
\* of e, whatever kind of Value e evaluates to.
C2_AssignStoresAndReturns ==
    [][ (pc = "eval" /\ pc' = "eval" /\ ip' = ip + 1 /\ IsAssign(ast.stmts[ip'])) =>
            LET stmt == ast.stmts[ip']
                rv   == evaler_eval_expr(evaler, AssignRhs(stmt)).v
                x    == [kind |-> "EXPR_IDENT", ident_val |-> AssignName(stmt)]
            IN  /\ value' = rv
                /\ evaler_eval_expr(evaler', x).v = rv ]_vars

\* C5: when the last statement of the script has evaluated to an Error, the
\* result autoc_run returns holds that Error, message included.
C5_TopLevelErrorPreserved ==
    (pc = "done" /\ value.kind = "VAL_ERROR") => result.value = value

\* C7: parser_parse returns a Code for every token stream, malformed ones
\* included: no loop of the parser goes on for ever.
C7_ParserAlwaysReturns == pc # "parse_hung"

\* s after the body "s=s*5+i+1" has run for i, i + 1, ..., last
RECURSIVE RangeFold(_, _, _)
RangeFold(i, last, s) ==
    IF i > last THEN s ELSE RangeFold(i + 1, last, s * 5 + i + 1)

\* the last value of i that "a..b" or "a..=b" gives
RangeLast(b, eq) == IF eq THEN b ELSE b - 1

\* C10: "for i in a..b { body }" runs body once for each i = a, ..., b - 1 in
\* increasing order (not at all when a >= b) and "a..=b" also for i = b, and
\* the loop ends: the folding body of RangeProgram leaves the fold of that
\* sequence in s, the counting body of CountProgram its length in n.
C10_ForRangeIterations ==
    /\ \A r \in SmallRanges :
          src = RangeProgram(r[1], r[2], r[3]) =>
              /\ pc \notin {"eval_hung", "crashed"}
              /\ pc = "done" =>
                    result.value = value_int(RangeFold(r[1], RangeLast(r[2], r[3]), 0))
    /\ \A r \in EdgeRanges :
          src = CountProgram(r[1], r[2], r[3]) =>
              /\ pc \notin {"eval_hung", "crashed"}
              /\ pc = "done" =>
                    result.value = value_int((r[2] - r[1]) + (IF r[3] THEN 1 ELSE 0))

----------------------------------------------------------------------------
(* Arithmetic expressions, written from a description [shape, x, y, z,     *)
(* op1, op2] of operands [neg, lit] and operators, and the value the       *)
(* precedence table gives each: unary minus first, then * and /, then +    *)
(* and -, equal tiers from the left, parentheses first of all.             *)

\* the largest Int literal of the arithmetic expressions
MaxLit == 3

ArithLits == { DecText(n) : n \in 1..MaxLit } \cup { <<"3",".","5">>, <<"5">> }

Operands == [neg : BOOLEAN, lit : ArithLits]

ArithOps == {"+", "-", "*", "/"}

ArithExprs ==
    [shape : {"two"}, x : Operands, y : Operands, op1 : ArithOps]
    \cup [shape : {"flat"}, x : Operands, y : Operands, z : Operands,
          op1 : ArithOps, op2 : ArithOps]
    \cup [shape : {"left", "right", "negleft"},
          x : [neg : {FALSE}, lit : ArithLits], y : [neg : {FALSE}, lit : ArithLits],
          z : [neg : {FALSE}, lit : ArithLits], op1 : ArithOps, op2 : ArithOps]

OperandText(o) == (IF o.neg THEN <<"-">> ELSE <<>>) \o o.lit

ArithText(e) ==
    CASE e.shape = "two"  -> OperandText(e.x) \o <<e.op1>> \o OperandText(e.y)
      [] e.shape = "flat" ->
            OperandText(e.x) \o <<e.op1>> \o OperandText(e.y) \o <<e.op2>>
            \o OperandText(e.z)
      [] e.shape = "left" ->
            <<"(">> \o e.x.lit \o <<e.op1>> \o e.y.lit \o <<")">> \o <<e.op2>> \o e.z.lit
      [] e.shape = "right" ->
            e.x.lit \o <<e.op1>> \o <<"(">> \o e.y.lit \o <<e.op2>> \o e.z.lit \o <<")">>
      [] e.shape = "negleft" ->
            <<"-","(">> \o e.x.lit \o <<e.op1>> \o e.y.lit \o <<")">> \o <<e.op2>> \o e.z.lit

\* the number a literal denotes
LitValue(lit) ==
    IF \E i \in 1..Len(lit) : lit[i] = "."
    THEN value_float(atof(lit)) ELSE value_int(atoi(lit))

OperandValue(o) == IF o.neg THEN value_neg(LitValue(o.lit)) ELSE LitValue(o.lit)

\* a op b on Values
Arith(op, a, b) ==
    CASE op = "+" -> value_add(a, b)
      [] op = "-" -> value_sub(a, b)
      [] op = "*" -> value_mul(a, b)
      [] op = "/" -> value_div(a, b)

\* the value of e by the precedence table
ArithValue(e) ==
    LET x == OperandValue(e.x)
        y == OperandValue(e.y)
    IN  CASE e.shape = "two"  -> Arith(e.op1, x, y)
          [] e.shape = "flat" ->
                IF e.op1 \in {"+", "-"} /\ e.op2 \in {"*", "/"}
                THEN Arith(e.op1, x, Arith(e.op2, y, OperandValue(e.z)))
                ELSE Arith(e.op2, Arith(e.op1, x, y), OperandValue(e.z))
          [] e.shape = "left" -> Arith(e.op2, Arith(e.op1, x, y), OperandValue(e.z))
          [] e.shape = "right" -> Arith(e.op1, x, Arith(e.op2, y, OperandValue(e.z)))
          [] e.shape = "negleft" ->
                Arith(e.op2, value_neg(Arith(e.op1, x, y)), OperandValue(e.z))

\* autoc_run on the text of an arithmetic expression
InitArith ==
    /\ given \in ArithExprs
    /\ src = ArithText(given)
    /\ Called

SpecArith == InitArith /\ [][Next]_vars

\* C9: an arithmetic expression of numeric literals, + - * /, unary minus
\* and parentheses evaluates to the value the precedence table gives it
\* (* and / before + and -, unary minus before both, parentheses first,
\* equal tiers from the left), and autoc_run returns that value when it is
\* a number.
C9_ArithmeticPrecedence ==
    pc = "done" =>
        /\ value = ArithValue(given)
        /\ value.kind \in {"VAL_INT", "VAL_DOUBLE"} => result.value = value

\* C9 witness: "1+2*3" has evaluated to 7, and autoc_run has returned it.
C9_Witness ==
    /\ pc = "done"
    /\ src = <<"1","+","2","*","3">>
    /\ result.value = value_int(7)

----------------------------------------------------------------------------
(* The Universe harness: universe_new, then calls of universe_enter_scope, *)
(* universe_exit_scope, universe_set and universe_get in any order, as the *)
(* evaluator makes them for blocks, loops, stores and identifiers.  act is *)
(* the last call: its name, its arguments (universe is the Universe the    *)
(* call found), what it returned, and n, the calls made so far.            *)

\* the most calls the harness makes on one Universe
MaxCalls == 5

UniNames == { <<"a">>, <<"b">> }

UniValues == { value_int(1), value_int(2) }

UniKinds == { "SCOPE_BLOCK", "SCOPE_FN" }

InitUniverse ==
    /\ universe = universe_new
    /\ act = [op |-> "universe_new", n |-> 0]
    /\ lexer = "none" /\ toks = <<>> /\ pc = "idle" /\ src = <<>>
    /\ ast = "none" /\ ip = 0 /\ evaler = "none" /\ value = "none"
    /\ result = "none" /\ given = "none"

\* the harness may make another call
CanCall == act.n < MaxCalls

EnterScope ==
    /\ CanCall
    /\ \E kind \in UniKinds :
          /\ universe' = universe_enter_scope(universe, kind)
          /\ act' = [op |-> "universe_enter_scope", universe |-> universe,
                     kind |-> kind, n |-> act.n + 1]
    /\ UNCHANGED <<lexer, toks, pc, src, ast, ip, evaler, value, result, given>>

ExitScope ==
    /\ CanCall
    /\ universe' = universe_exit_scope(universe)
    /\ act' = [op |-> "universe_exit_scope", universe |-> universe, n |-> act.n + 1]
    /\ UNCHANGED <<lexer, toks, pc, src, ast, ip, evaler, value, result, given>>

UniverseSet ==
    /\ CanCall
    /\ \E name \in UniNames, v \in UniValues :
          /\ universe' = universe_set(universe, name, v)
          /\ act' = [op |-> "universe_set", universe |-> universe,
                     name |-> name, value |-> v, n |-> act.n + 1]
    /\ UNCHANGED <<lexer, toks, pc, src, ast, ip, evaler, value, result, given>>

UniverseGet ==
    /\ CanCall
    /\ \E name \in UniNames :
          act' = [op |-> "universe_get", universe |-> universe, name |-> name,
                  ret |-> universe_get(universe, name), n |-> act.n + 1]
    /\ UNCHANGED <<lexer, toks, pc, src, ast, ip, evaler, value, result, universe, given>>

NextUniverse == EnterScope \/ ExitScope \/ UniverseSet \/ UniverseGet

SpecUniverse == InitUniverse /\ [][NextUniverse]_vars

\* path p is path q or the path of an ancestor of q
IsPrefix(p, q) == Len(p) <= Len(q) /\ \A i \in 1..Len(p) : p[i] = q[i]

\* the scopes from the current scope of u up to the global scope
Chain(u) ==
    { i \in 1..Len(u.scopes) :
        IsPrefix(u.scopes[i].sid.path, u.scopes[u.current].sid.path) }

\* scope binds name
Binds(scope, name) == \E k \in 1..Len(scope.keys) : scope.keys[k] = name

\* the scopes of the chain of u that bind name
Binders(u, name) == { i \in Chain(u) : Binds(u.scopes[i], name) }

\* the scope of the chain of u that binds name and is nearest to the current
\* scope
Nearest(u, name) ==
    CHOOSE i \in Binders(u, name) :
        \A j \in Binders(u, name) :
            Len(u.scopes[j].sid.path) <= Len(u.scopes[i].sid.path)

\* scope t is scope s but for name, which t binds to v, in the place name
\* has in s when s binds it and after the names of s when it does not
Rebound(s, t, name, v) ==
    /\ t.kind = s.kind /\ t.sid = s.sid /\ t.parent = s.parent /\ t.kids = s.kids
    /\ t.keys = (IF Binds(s, name) THEN s.keys ELSE Append(s.keys, name))
    /\ Len(t.values) = Len(t.keys)
    /\ \A k \in 1..Len(t.keys) :
          t.values[k] = (IF t.keys[k] = name THEN v ELSE s.values[k])

\* universe w is universe u but for scope i, which binds name to v
SetIn(u, w, i, name, v) ==
    /\ Len(w.scopes) = Len(u.scopes)
    /\ \A j \in 1..Len(u.scopes) :
          IF j = i THEN Rebound(u.scopes[j], w.scopes[j], name, v)
          ELSE w.scopes[j] = u.scopes[j]
    /\ w.current = u.current /\ w.cur_spot = u.cur_spot /\ w.global = u.global

----------------------------------------------------------------------------
(* value_repr (value.c).  The static char buffer[4096] is a sequence of    *)
(* bytes, NUL among them; the bytes after its end are the zeros static     *)
(* storage starts with.  The texts here are far shorter than 4096, so no   *)
(* snprintf truncates.  A const char* that value_repr returns is either    *)
(* the buffer itself (inbuf) or a text held elsewhere.  When the element   *)
(* of an array was written to the buffer, the array case prints the buffer *)
(* into itself, "%s" reading what the same call writes: snprintf on        *)
(* overlapping objects is undefined.  overlap names what the library does: *)
(*   "cleared"  the destination is made the empty string before "%s" is    *)
(*              read (glibc, musl), so the text read ends where the        *)
(*              destination begins;                                        *)
(*   "smeared"  the bytes are copied forward as they are read, the copy    *)
(*              never meets the end of the text it is writing, and what    *)
(*              the buffer holds afterwards is not told by the C text.     *)

HexChars == <<"0","1","2","3","4","5","6","7","8","9","A","B","C","D","E","F">>

\* "0x%02X" of a uint8_t
ByteText(b) == <<"0", "x", HexChars[(b \div 16) + 1], HexChars[(b % 16) + 1]>>

\* "%d" of an int32_t
IntText(i) ==
    IF i >= 0 THEN DecText(i)
    ELSE IF i = INT_MIN THEN <<"-">> \o DecText(214748364) \o <<"8">>
    ELSE <<"-">> \o DecText(-i)

\* "%u" of a uint32_t
UintText(u) ==
    IF u >= 0 THEN DecText(u)
    ELSE LET q == UDiv(u, 10)
         IN  DecText(q) \o <<DigitChars[SubWrap(u, MulWrap(q, 10)) + 1]>>

\* "%g" of a double.  A double of at most three decimals and below 1000 in
\* magnitude has at most six significant digits, and %g prints them all,
\* without the zeros that would end the fraction.  Any other double is
\* printed as the text "%g", which is equal to no text a number has.
GText(f) ==
    IF 1000 % f.den # 0 \/ Abs(f.num) >= 1000 * f.den THEN <<"%g">>
    ELSE LET m    == Abs(f.num) * (1000 \div f.den)
             frac == m % 1000
             d    == <<DigitChars[(frac \div 100) + 1],
                       DigitChars[((frac \div 10) % 10) + 1],
                       DigitChars[(frac % 10) + 1]>>
             keep == IF frac % 10 # 0 THEN 3 ELSE IF frac % 100 # 0 THEN 2 ELSE 1
         IN  (IF f.num < 0 THEN <<"-">> ELSE <<>>) \o DecText(m \div 1000)
             \o (IF frac = 0 THEN <<>> ELSE <<".">> \o SubSeq(d, 1, keep))

\* the bytes of buf after snprintf(buffer + off, sizeof(buffer) - off, "%s",
\* text), text being read from elsewhere: text and a NUL from offset off on
BufWrite(buf, off, text) ==
    LET n == IF Len(buf) > off + Len(text) + 1 THEN Len(buf) ELSE off + Len(text) + 1
    IN  [k \in 1..n |->
            IF k <= off THEN (IF k <= Len(buf) THEN buf[k] ELSE NUL)
            ELSE IF k <= off + Len(text) THEN text[k - off]
            ELSE IF k = off + Len(text) + 1 THEN NUL
            ELSE buf[k]]

\* the C string that starts at offset off of buf
RECURSIVE CStr(_, _)
CStr(buf, off) ==
    IF off >= Len(buf) \/ buf[off + 1] = NUL THEN <<>>
    ELSE <<buf[off + 1]>> \o CStr(buf, off + 1)

\* what value_repr returns: the buffer, or a text held elsewhere; b is
\* [buffer, smeared]
InBuf(b) == [inbuf |-> TRUE, text |-> <<>>, b |-> b]

Elsewhere(text, b) == [inbuf |-> FALSE, text |-> text, b |-> b]

\* snprintf(buffer, sizeof(buffer), ...) giving text; return buffer
Printed(text, b) == InBuf([b EXCEPT !.buffer = BufWrite(@, 0, text)])

\* offset += snprintf(buffer + offset, sizeof(buffer) - offset, "%s",
\* elem_repr): [b, offset] after it
AppendRepr(r, offset, overlap) ==
    IF ~r.inbuf
    THEN [b |-> [r.b EXCEPT !.buffer = BufWrite(@, offset, r.text)],
          offset |-> offset + Len(r.text)]
    ELSE IF overlap = "cleared"
    THEN LET cleared == BufWrite(r.b.buffer, offset, <<>>)
             text    == CStr(cleared, 0)
         IN  [b |-> [r.b EXCEPT !.buffer = BufWrite(cleared, offset, text)],
              offset |-> offset + Len(text)]
    ELSE [b |-> [r.b EXCEPT !.smeared = TRUE], offset |-> offset]

RECURSIVE value_repr(_, _, _)

\* the loop of the array case from element i on
RECURSIVE ReprLoop(_, _, _, _, _)
ReprLoop(values, i, offset, b, overlap) ==
    IF i > Len(values) \/ b.smeared
    THEN InBuf([b EXCEPT !.buffer = BufWrite(@, offset, <<"]">>)])
    ELSE LET sep == IF i > 1
                    THEN [b |-> [b EXCEPT !.buffer = BufWrite(@, offset, <<",", " ">>)],
                          offset |-> offset + 2]
                    ELSE [b |-> b, offset |-> offset]
             a   == AppendRepr(value_repr(values[i], sep.b, overlap), sep.offset, overlap)
         IN  ReprLoop(values, i + 1, a.offset, a.b, overlap)

value_repr(v, b, overlap) ==
    CASE v.kind = "VAL_NIL"    -> Elsewhere(<<"n","i","l">>, b)
      [] v.kind = "VAL_VOID"   -> Elsewhere(<<"v","o","i","d">>, b)
      [] v.kind = "VAL_BOOL"   ->
            Elsewhere(IF v.bool_val THEN <<"t","r","u","e">> ELSE <<"f","a","l","s","e">>, b)
      [] v.kind = "VAL_BYTE"   -> Printed(ByteText(v.byte_val), b)
      [] v.kind = "VAL_INT"    -> Printed(IntText(v.int_val), b)
      [] v.kind = "VAL_UINT"   -> Printed(UintText(v.uint_val) \o <<"u">>, b)
      [] v.kind = "VAL_DOUBLE" -> Printed(GText(v.float_val), b)
      [] v.kind = "VAL_CHAR"   -> Printed(<<"'", v.char_val, "'">>, b)
      [] v.kind = "VAL_STR"    -> Elsewhere(v.str_val, b)
      [] v.kind = "VAL_ARRAY"  ->
            ReprLoop(v.values, 1, 1, [b EXCEPT !.buffer = BufWrite(@, 0, <<"[">>)], overlap)
      [] v.kind = "VAL_RANGE"  ->
            Printed(IntText(v.start) \o (IF v.eq THEN <<".",".","=">> ELSE <<".",".">>)
                    \o IntText(v.end), b)
      [] v.kind = "VAL_ERROR"  -> Elsewhere(v.error_val, b)
      [] OTHER                 -> Elsewhere(<<"(","u","n","k","n","o","w","n",")">>, b)

\* the static buffer before the first call
NoBuffer == [buffer |-> <<>>, smeared |-> FALSE]

\* the text not told by the C text
Smeared == <<"?">>

\* the text the caller of value_repr reads at the pointer it got
ReprText(r) ==
    IF r.b.smeared THEN Smeared
    ELSE IF r.inbuf THEN CStr(r.b.buffer, 0) ELSE r.text

----------------------------------------------------------------------------
(* The Value harness: one call of a function of value.c on a Value built   *)
(* by the constructors.  given is the Value, act the call made on it and   *)
(* what it returned.                                                       *)

\* the most elements of the arrays, and pairs of the objects, of the harness
MaxValElems == 2

\* one Value at least of every tag but Array and Object
ValueAtoms ==
    { value_nil, value_void, value_bool(TRUE), value_bool(FALSE),
      value_byte(255), value_int(0), value_int(-7), value_uint(5),
      value_float(Rat(5, 2)), value_char("c"), value_str(<<>>),
      value_str(<<"x","y">>), value_range(1, 3, FALSE), value_range(0, 2, TRUE),
      value_error(DivisionByZero) }

\* the sequences of at most n members of set
SeqsUpTo(set, n) == UNION { [1..k -> set] : k \in 0..n }

ValueArrays(elems) == { value_array(s) : s \in SeqsUpTo(elems, MaxValElems) }

\* the objects of keys x and y, in this order
ValueObjects(elems) ==
    { value_object([i \in 1..Len(s) |->
                      [key |-> IF i = 1 THEN <<"x">> ELSE <<"y">>,
                       value |-> s[i]]]) : s \in SeqsUpTo(elems, MaxValElems) }

\* the atoms, the arrays and objects of atoms, and the arrays and objects
\* that hold one array or object of atoms
ValueInputs ==
    LET flat == ValueArrays(ValueAtoms) \cup ValueObjects(ValueAtoms)
    IN  ValueAtoms \cup flat
        \cup { value_array(<<v>>) : v \in flat }
        \cup { value_object(<<[key |-> <<"x">>, value |-> v]>>) : v \in flat }

InitValue ==
    /\ given \in ValueInputs
    /\ act = [op |-> "none"]
    /\ lexer = "none" /\ toks = <<>> /\ pc = "idle" /\ src = <<>>
    /\ ast = "none" /\ ip = 0 /\ evaler = "none" /\ value = "none"
    /\ result = "none" /\ universe = "none"

\* value_clone(given)
ValueClone ==
    /\ act.op = "none"
    /\ act' = [op |-> "value_clone", value |-> given, ret |-> value_clone(given)]
    /\ UNCHANGED <<lexer, toks, pc, src, ast, ip, evaler, value, result, universe, given>>

\* value_repr(given), the static buffer as it is before the first call (what
\* it held before is never read)
ValueRepr ==
    /\ act.op = "none"
    /\ \E overlap \in {"cleared", "smeared"} :
          act' = [op |-> "value_repr", value |-> given, overlap |-> overlap,
                  ret |-> ReprText(value_repr(given, NoBuffer, overlap))]
    /\ UNCHANGED <<lexer, toks, pc, src, ast, ip, evaler, value, result, universe, given>>

\* the right operands of the binary operations of the harness
RightOperands ==
    { value_int(0), value_int(2), value_int(-7), value_uint(0), value_uint(5),
      value_float(Rat(0, 1)), value_float(Rat(5, 2)), value_float(Rat(2, 1)),
      value_bool(TRUE), value_str(<<"x","y">>), value_nil }

\* value_div(given, b)
ValueDiv ==
    /\ act.op = "none"
    /\ \E b \in RightOperands :
          act' = [op |-> "value_div", a |-> given, b |-> b, ret |-> value_div(given, b)]
    /\ UNCHANGED <<lexer, toks, pc, src, ast, ip, evaler, value, result, universe, given>>

\* the comparison fn of value.c on a and b
Compare(fn, a, b) ==
    CASE fn = "value_eq" -> value_eq(a, b)
      [] fn = "value_lt" -> value_lt(a, b)
      [] fn = "value_gt" -> value_gt(a, b)
      [] fn = "value_le" -> value_le(a, b)
      [] fn = "value_ge" -> value_ge(a, b)

\* value_eq, value_lt, value_gt, value_le or value_ge of given and b
ValueCompare ==
    /\ act.op = "none"
    /\ \E fn \in {"value_eq", "value_lt", "value_gt", "value_le", "value_ge"},
          b \in RightOperands :
          act' = [op |-> fn, a |-> given, b |-> b, ret |-> Compare(fn, given, b)]
    /\ UNCHANGED <<lexer, toks, pc, src, ast, ip, evaler, value, result, universe, given>>

NextValue == ValueClone \/ ValueRepr \/ ValueDiv \/ ValueCompare

SpecValue == InitValue /\ [][NextValue]_vars

\* C4: value_clone(v) returns a Value of the tag and the contents of v,
\* whatever the tag of v: Array and Object at any depth, and Error, included.
C4_CloneIsDeepCopy == act.op = "value_clone" => act.ret = act.value

\* the text of an Array: "[", the texts of the elements in order with ", "
\* between them, "]"; the text of any other Value is what value_repr prints
RECURSIVE ArrayReprText(_)
ArrayReprText(v) ==
    IF v.kind = "VAL_ARRAY"
    THEN <<"[">> \o Join([i \in 1..Len(v.values) |-> ArrayReprText(v.values[i])],
                         <<",", " ">>) \o <<"]">>
    ELSE ReprText(value_repr(v, NoBuffer, "cleared"))

\* C11: value_repr of an Array of elements e1..en, of any length and
\* nesting, is "[" followed by the reprs of e1..en in order, ", " between
\* them, followed by "]".
C11_ArrayRepr ==
    (act.op = "value_repr" /\ act.value.kind = "VAL_ARRAY") =>
        act.ret = ArrayReprText(act.value)

\* a / b is one of the pairings value_div supports
DivPairing(a, b) ==
    <<a.kind, b.kind>> \in
        { <<"VAL_INT", "VAL_INT">>, <<"VAL_UINT", "VAL_UINT">>,
          <<"VAL_DOUBLE", "VAL_DOUBLE">>, <<"VAL_INT", "VAL_DOUBLE">>,
          <<"VAL_DOUBLE", "VAL_INT">> }

\* the number b is zero
IsZero(b) ==
    CASE b.kind = "VAL_INT"    -> b.int_val = 0
      [] b.kind = "VAL_UINT"   -> b.uint_val = 0
      [] b.kind = "VAL_DOUBLE" -> b.float_val.num = 0
      [] OTHER                 -> FALSE

\* C12: value_div whose right operand is zero returns an Error value, for
\* Int/Int, UInt/UInt, Double/Double and Int with Double either way: it
\* neither traps nor returns a number.
C12_DivisionByZeroIsError ==
    (act.op = "value_div" /\ DivPairing(act.a, act.b) /\ IsZero(act.b)) =>
        act.ret.kind = "VAL_ERROR"

\* C12 witness: the Double 2.5 has been divided by the Int 0, and the
\* result is an Error.
C12_Witness ==
    /\ act.op = "value_div"
    /\ act.a = value_float(Rat(5, 2)) /\ act.b = value_int(0)
    /\ act.ret.kind = "VAL_ERROR"

----------------------------------------------------------------------------
(* The Universe below nested blocks: the harness calls start from the      *)
(* Universe a script has when its statements are depth blocks deep.        *)

\* the shallowest and the deepest nesting the harness starts from
MinDepth == 57

MaxDepth == 58

\* the Universe after depth nested universe_enter_scope(SCOPE_BLOCK)
RECURSIVE Nested(_)
Nested(depth) ==
    IF depth = 0 THEN universe_new
    ELSE universe_enter_scope(Nested(depth - 1), "SCOPE_BLOCK")

InitNested ==
    /\ \E depth \in MinDepth..MaxDepth : universe = Nested(depth)
    /\ act = [op |-> "universe_new", n |-> 0]
    /\ lexer = "none" /\ toks = <<>> /\ pc = "idle" /\ src = <<>>
    /\ ast = "none" /\ ip = 0 /\ evaler = "none" /\ value = "none"
    /\ result = "none" /\ given = "none"

SpecNested == InitNested /\ [][NextUniverse]_vars

\* the scopes of u whose id is sid
Registered(u, sid) == { j \in 1..Len(u.scopes) : u.scopes[j].sid.path = sid.path }

\* C13: after any calls of universe_enter_scope, universe_exit_scope,
\* universe_set and universe_get, the parent id of every scope but the
\* global one is the id of exactly one registered scope, the current scope
\* is registered under the current id, no two scopes have the same id, and
\* the id of a scope is the id of its parent followed by the scope's own
\* name.
C13_ScopeTreeWellFormed ==
    LET u == universe
    IN  /\ \A i \in 1..Len(u.scopes) :
              u.scopes[i].parent # NoSid =>
                  /\ Cardinality(Registered(u, u.scopes[i].parent)) = 1
                  /\ Len(u.scopes[i].sid.path) = Len(u.scopes[i].parent.path) + 1
                  /\ IsPrefix(u.scopes[i].parent.path, u.scopes[i].sid.path)
        /\ u.current \in 1..Len(u.scopes)
        /\ u.scopes[u.current].sid = u.cur_spot
        /\ \A i, j \in 1..Len(u.scopes) :
              i # j => u.scopes[i].sid.path # u.scopes[j].sid.path

\* the token kind of an operator of MultiOps (token.h)
OpKind(op) ==
    CASE op = <<"=","=">>     -> "EQ"
      [] op = <<"!","=">>     -> "NEQ"
      [] op = <<"<","=">>     -> "LE"
      [] op = <<">","=">>     -> "GE"
      [] op = <<"+","=">>     -> "ADDEQ"
      [] op = <<"-","=">>     -> "SUBEQ"
      [] op = <<"*","=">>     -> "MULEQ"
      [] op = <<"/","=">>     -> "DIVEQ"
      [] op = <<".",".">>     -> "RANGE"
      [] op = <<".",".","=">> -> "RANGEEQ"
      [] op = <<"-",">">>     -> "ARROW"
      [] op = <<"=",">">>     -> "DOUBLE_ARROW"

\* the operators of MultiOps the input starts with
OpsAt(input) == { op \in MultiOps : IsPrefix(op, input) }

\* the longest of them
LongestOp(input) ==
    CHOOSE op \in OpsAt(input) : \A other \in OpsAt(input) : Len(other) <= Len(op)

\* C14: when the input starts with one of == != <= >= += -= *= /= .. ..=
\* -> =>, the first lexer_next returns one token whose kind is that of the
\* longest of these operators the input starts with, and whose text is the
\* operator: never the token of its first character alone.
C14_LongestOperator ==
    (OpsAt(lexer.input) # {} /\ Len(toks) >= 1) =>
        /\ toks[1].kind = OpKind(LongestOp(lexer.input))
        /\ toks[1].text = LongestOp(lexer.input)

\* the value the literal is to have: 3i8 is the 8-bit integer 3, which the
\* evaluator holds in an Int
LiteralValue(text) ==
    CASE text = <<"1","u">>             -> value_uint(1)
      [] text = <<"3","i","8">>         -> value_int(3)
      [] text = <<"2",".","5">>         -> value_float(Rat(5, 2))
      [] text = <<"1","_","0","0","0">> -> value_int(1000)

\* C15: the number literals keep their kind and their value: 1u is the UInt
\* 1, 3i8 the 8-bit integer 3, 2.5 the Double 2.5 and 1_000 the Int 1000.
\* The parser returns on each of them, and the statement evaluates to that
\* value.
C15_NumberLiterals ==
    src \in LiteralPrograms =>
        /\ pc \notin {"lex_hung", "parse_hung"}
        /\ (pc = "done" => value = LiteralValue(src))

\* the number of an Int or a Double, as a fraction
Number(v) ==
    IF v.kind = "VAL_INT" THEN [num |-> v.int_val, den |-> 1] ELSE v.float_val

\* one of a and b is an Int, the other a Double
IntWithDouble(a, b) ==
    <<a.kind, b.kind>> \in { <<"VAL_INT", "VAL_DOUBLE">>, <<"VAL_DOUBLE", "VAL_INT">> }

\* a and b are two Ints, two UInts or two Doubles
SameNumberKind(a, b) ==
    <<a.kind, b.kind>> \in
        { <<"VAL_INT", "VAL_INT">>, <<"VAL_UINT", "VAL_UINT">>,
          <<"VAL_DOUBLE", "VAL_DOUBLE">> }

\* C16: value_eq of an Int and a Double returns the Bool that tells whether
\* the two numbers are equal, and value_lt, value_gt, value_le and value_ge
\* return an Error for every pair of operands that is not two Ints, two
\* UInts or two Doubles, an Int with a Double included.
C16_MixedComparison ==
    /\ (act.op = "value_eq" /\ IntWithDouble(act.a, act.b)) =>
           act.ret = value_bool(Number(act.a).num * Number(act.b).den =
                                Number(act.b).num * Number(act.a).den)
    /\ (act.op \in {"value_lt", "value_gt", "value_le", "value_ge"}
            /\ ~SameNumberKind(act.a, act.b)) =>
           act.ret.kind = "VAL_ERROR"

\* C16 witness: the Int 0 compared with the Double 0.0 has been found
\* equal.
C16_Witness ==
    /\ act.op = "value_eq"
    /\ act.a = value_int(0) /\ act.b = value_float(Rat(0, 1))
    /\ act.ret = value_bool(TRUE)

\* C17: after var a = {name: "auto", age: 18}, the expression a.name
\* evaluates to the Str "auto" and a.age to the Int 18.
C17_ObjectFieldAccess ==
    /\ (pc = "done" /\ src = ObjectProgram(<<"n","a","m","e">>)) =>
           value = value_str(<<"a","u","t","o">>)
    /\ (pc = "done" /\ src = ObjectProgram(<<"a","g","e">>)) =>
           value = value_int(18)

\* C18: a negative index counts from the end of the array: the program
\* "var a=[1,...,n]; a[-k]" with 1 <= k <= n evaluates to element n - k of
\* the array, which is n - k + 1 ("var a=[1,2,3]; a[-1]" to 3).
C18_NegativeIndexWraps ==
    \A n \in 1..MaxElems : \A k \in 1..n :
        (pc = "done" /\ src = NegIndexProgram(n, k)) => value = value_int(n - k + 1)

\* the identifier expression of a one-letter name
Ident(c) == [kind |-> "EXPR_IDENT", ident_val |-> <<c>>]

\* e is the call f(y) or the index a[i]
IsPostfixOperand(e) ==
    \/ /\ e.kind = "EXPR_CALL"
       /\ e.callee = Ident("f")
       /\ e.args = <<Ident("y")>>
    \/ /\ e.kind = "EXPR_INDEX"
       /\ e.array = Ident("a")
       /\ e.index = Ident("i")

\* C19: a call or an index binds tighter than the unary and the binary
\* operators: "x op f(y)" and "x op a[i]" parse to the binary expression of
\* x and the call or the index, and "-f(y)" and "-a[i]" to the unary
\* expression of the call or the index; the postfix applies to the operand
\* right before it only.
C19_PostfixBindsTighter ==
    (src \in PostfixPrograms /\ pc \in {"eval", "done", "crashed", "eval_hung"}) =>
        LET e == ast.stmts[1].expr
        IN  IF src[1] = "-"
            THEN e.kind = "EXPR_UNARY" /\ IsPostfixOperand(e.expr)
            ELSE /\ e.kind = "EXPR_BINA"
                 /\ e.left = Ident("x")
                 /\ IsPostfixOperand(e.right)

----------------------------------------------------------------------------
(* The Index harness: evaler_eval_expr on an Index node whose array is an  *)
(* array literal and whose index is an integer literal, negated or not.    *)
(* given is [array, index], the two expressions of the node; act is the    *)
(* evaluation made: the Values of the two expressions and the Value        *)
(* returned for the node.                                                  *)

\* the expression of the integer literal i
IntExpr(i) == [kind |-> "EXPR_INT", int_val |-> i]

\* the element expressions of the array literals: 1, 2, 2.5, "xy", [3],
\* {x: 1} and 1/0
IndexElems ==
    { IntExpr(1), IntExpr(2),
      [kind |-> "EXPR_DOUBLE", float_val |-> Rat(5, 2)],
      [kind |-> "EXPR_STR", str_val |-> <<"x","y">>],
      [kind |-> "EXPR_ARRAY", elems |-> <<IntExpr(3)>>],
      [kind |-> "EXPR_OBJECT", pairs |-> <<[key |-> <<"x">>, value |-> IntExpr(1)]>>],
      [kind |-> "EXPR_BINA", left |-> IntExpr(1), op |-> "DIV", right |-> IntExpr(0)] }

\* the array literals of at most MaxElems elements
IndexArrays == { [kind |-> "EXPR_ARRAY", elems |-> s] : s \in SeqsUpTo(IndexElems, MaxElems) }

\* the index expressions: 0 ... MaxElems + 1, and -1 ... -MaxElems
IndexExprs ==
    { IntExpr(i) : i \in 0..(MaxElems + 1) }
    \cup { [kind |-> "EXPR_UNARY", expr |-> IntExpr(k)] : k \in 1..MaxElems }

InitIndex ==
    /\ given \in [array : IndexArrays, index : IndexExprs]
    /\ act = [op |-> "none"]
    /\ lexer = "none" /\ toks = <<>> /\ pc = "idle" /\ src = <<>>
    /\ ast = "none" /\ ip = 0 /\ evaler = "none" /\ value = "none"
    /\ result = "none" /\ universe = "none"

\* evaler_eval_expr has returned r for the Index node, whose array
\* expression has the Value array and whose index expression the Value index
Indexed(array, index, r) ==
    act' = [op |-> "evaler_eval_expr", array |-> array.v, index |-> index.v,
            ret |-> r.v, fate |-> r.ev.fate]

\* evaler_eval_expr on the Index node of given, in a new Evaler
EvalIndex ==
    /\ act.op = "none"
    /\ \E overflow \in {"wrap", "trap"}, freed \in {"intact", "empty", "junk"} :
          Indexed(evaler_eval_expr(evaler_new(universe_new, overflow, freed), given.array),
                  evaler_eval_expr(evaler_new(universe_new, overflow, freed), given.index),
                  evaler_eval_expr(evaler_new(universe_new, overflow, freed),
                                   [kind |-> "EXPR_INDEX", array |-> given.array,
                                    index |-> given.index]))
    /\ UNCHANGED <<lexer, toks, pc, src, ast, ip, evaler, value, result, universe, given>>

NextIndex == EvalIndex

SpecIndex == InitIndex /\ [][NextIndex]_vars

\* C20: the evaluation of an Index node on an Array of n elements with an
\* Int index i returns element i of the array when 0 <= i < n, and an Error
\* when i is negative or at least n; no element outside the array is read.
C20_IndexInBounds ==
    (act.op = "evaler_eval_expr" /\ act.array.kind = "VAL_ARRAY"
        /\ act.index.kind = "VAL_INT") =>
        /\ act.fate = "running"
        /\ IF 0 <= act.index.int_val /\ act.index.int_val < Len(act.array.values)
           THEN act.ret = act.array.values[act.index.int_val + 1]
           ELSE act.ret.kind = "VAL_ERROR"

\* C21: universe_exit_scope only moves current back to the parent scope.
\* No call of the Universe makes the registry of scopes shorter; a
\* universe_exit_scope leaves the registry and every binding as they were;
\* made at the global scope it leaves current there, made elsewhere it
\* makes current a scope that has the parent id, and made right after a
\* universe_enter_scope it makes current the scope that call was made in.
C21_ExitOnlyMovesCurrent ==
    [][ /\ Len(universe'.scopes) >= Len(universe.scopes)
        /\ act'.op = "universe_exit_scope" =>
              /\ universe'.scopes = universe.scopes
              /\ universe'.global = universe.global
              /\ IF universe.scopes[universe.current].parent = NoSid
                 THEN universe'.current = universe.current
                 ELSE /\ universe'.scopes[universe'.current].sid =
                             universe.scopes[universe.current].parent
                      /\ universe'.cur_spot = universe.scopes[universe.current].parent
              /\ (act.op = "universe_enter_scope" =>
                     universe'.current = act.universe.current) ]_vars

\* C22: a C-string literal is scanned by the rule of the plain string
\* literal of the same body.  On c"<rest>, the call of lexer_next that
\* follows the one that returned the c returns a CSTR token whose text is
\* the text lexer_string gives on "<rest>, and has consumed the characters
\* lexer_string consumes there, a backslash before a quote included.
C22_CStringScansAsString ==
    (lexer.input \in CStringInputs /\ Len(toks) = 2) =>
        LET plain == lexer_string(lexer_new(Tail(lexer.input)))
        IN  /\ toks[2].kind = "CSTR"
            /\ toks[2].text = plain.tok.text
            /\ lexer.pos = plain.lx.pos + 1

----------------------------------------------------------------------------
(* The source cursor (src/auto/lexer.c).  A Src is [content, len, pos],    *)
(* pos being [line, at, total]; content is a text of characters other than *)
(* the one whose char value is -1.  The harness builds a Src over a text,  *)
(* as main does, and calls Src_NextChar again and again; given is the Src  *)
(* and act the last call: what it returned and n, the calls made so far.   *)
(* struct Pos (pos.h) is known by the three fields main initialises.       *)

\* the -1 that Src_NextChar returns at the end of the content
EndOfInput == "EndOfInput"

\* the value returned and the Src after the call
Src_NextChar(self) ==
    IF self.pos.total >= self.len
    THEN [ret |-> EndOfInput, self |-> self]
    ELSE LET n == self.content[self.pos.at + 1]
         IN  [ret |-> n,
              self |-> [self EXCEPT
                          !.pos = [line  |-> IF n = "\n" THEN @.line + 1 ELSE @.line,
                                   at    |-> IF n = "\n" THEN 0 ELSE @.at + 1,
                                   total |-> @.total + 1]]]

\* the longest content of the harness
MaxContent == 4

\* the calls the harness makes after the content has ended
MaxPastEnd == 2

SrcContents == Texts({"a", "b", "\n"}, MaxContent)

InitSrc ==
    /\ \E content \in SrcContents :
          given = [content |-> content, len |-> Len(content),
                   pos |-> [line |-> 0, at |-> 0, total |-> 0]]
    /\ act = [op |-> "none", n |-> 0]
    /\ lexer = "none" /\ toks = <<>> /\ pc = "idle" /\ src = <<>>
    /\ ast = "none" /\ ip = 0 /\ evaler = "none" /\ value = "none"
    /\ result = "none" /\ universe = "none"

\* char ch = Src_NextChar(&src)
NextChar ==
    /\ act.n < given.len + MaxPastEnd
    /\ given' = Src_NextChar(given).self
    /\ act' = [op |-> "Src_NextChar", ret |-> Src_NextChar(given).ret, n |-> act.n + 1]
    /\ UNCHANGED <<lexer, toks, pc, src, ast, ip, evaler, value, result, universe>>

NextSrc == NextChar

SpecSrc == InitSrc /\ [][NextSrc]_vars

\* C23: on a source of n characters the k-th call of Src_NextChar, for
\* 1 <= k <= n, returns the character at offset k - 1 and leaves the offset
\* at k, however many lines the source has; every later call returns
\* EndOfInput.
C23_NextCharWalksSource ==
    act.op = "Src_NextChar" =>
        IF act.n <= given.len
        THEN /\ act.ret = given.content[act.n]
             /\ given.pos.total = act.n
        ELSE act.ret = EndOfInput

\* the line print is to write for the program: the reprs of the arguments
\* with a space between them
PrintLine(text) ==
    CASE text = <<"p","r","i","n","t","(",")">>         -> <<>>
      [] text = <<"p","r","i","n","t","(","1",")">>     -> <<"1">>
      [] OTHER                                         -> <<"1"," ","2">>

\* C24: the evaluation of a Call whose callee is the identifier print, with
\* no, one or two arguments, returns: it has written one line, the reprs of
\* the arguments with a space between them, and its value is Void.
C24_PrintRendersArguments ==
    src \in PrintPrograms =>
        /\ pc # "crashed"
        /\ pc = "done" => /\ value = value_void
                          /\ evaler.stdout = <<PrintLine(src)>>

\* the programs that call with an argument or two
ArgCallPrograms ==
    { <<"f","o","o","(","1",")">> } \cup { text \in PrintPrograms : Len(text) > 7 }

\* C28: when a Call with one argument or more is evaluated, every evaluated
\* argument is stored into an allocated buffer: no store goes through the
\* NULL the buffer starts as or past its capacity, so the process is not
\* killed by the store.
C28_ArgumentBufferAllocated ==
    src \in ArgCallPrograms => pc # "crashed"

----------------------------------------------------------------------------
(* The statement harness: evaler_eval_stmt on one statement, in an Evaler  *)
(* whose Universe is the one a script has where the statement stands: at   *)
(* top level, or below depth nested blocks.  given is the statement, as    *)
(* the parser builds it from its text; act records the scope that was      *)
(* current when the evaluation started.                                    *)

\* statements of every kind, blocks within them
StmtTexts ==
    { <<"1","+","2">>,
      <<"v","a","r"," ","a"," ","="," ","1">>,
      <<"a"," ","="," ","2">>,
      <<"{"," ","1"," ","}">>,
      <<"{"," ","{"," ","1"," ","}"," ","}">>,
      <<"{"," ","v","a","r"," ","a"," ","="," ","1",";"," ","{"," ","a"," ","="," ","2"," ","}"," ","}">>,
      <<"f","o","r"," ","i"," ","i","n"," ","0",".",".","2"," ","{"," ","i"," ","}">>,
      <<"f","o","r"," ","i"," ","i","n"," ","0",".",".","2"," ","{"," ","{"," ","i"," ","}"," ","}">>,
      <<"f","o","r"," ","i"," ","i","n"," ","[","1",",","2","]"," ","{"," ","i"," ","}">>,
      <<"i","f"," ","1"," ","<"," ","2"," ","{"," ","7"," ","}"," ","e","l","s","e"," ","{"," ","8"," ","}">>,
      <<"i","f"," ","2"," ","<"," ","1"," ","{"," ","7"," ","}"," ","e","l","s","e"," ","{"," ","{"," ","8"," ","}"," ","}">> }

\* the first statement parser_parse builds from text
StmtOf(text) == Call("parser_parse", <<Call("parser_new", <<lexer_new(text)>>)>>).stmts[1]

\* the nesting the statement stands at: top level, or MinDepth to MaxDepth
\* blocks deep
StmtDepths == {0} \cup MinDepth..MaxDepth

InitStmt ==
    /\ \E text \in StmtTexts : given = StmtOf(text)
    /\ \E depth \in StmtDepths, overflow \in {"wrap", "trap"},
          freed \in {"intact", "empty", "junk"} :
          evaler = evaler_new(Nested(depth), overflow, freed)
    /\ act = [op |-> "none"]
    /\ lexer = "none" /\ toks = <<>> /\ pc = "idle" /\ src = <<>>
    /\ ast = "none" /\ ip = 0 /\ value = "none"
    /\ result = "none" /\ universe = "none"

\* evaler_eval_stmt has returned r
StmtEvaluated(r) ==
    /\ evaler' = r.ev
    /\ value' = r.v
    /\ act' = [op |-> "evaler_eval_stmt", current |-> evaler.universe.current]

\* evaler_eval_stmt on given
EvalStatement ==
    /\ act.op = "none"
    /\ StmtEvaluated(evaler_eval_stmt(evaler, given))
    /\ UNCHANGED <<lexer, toks, pc, src, ast, ip, result, universe, given>>

NextStmt == EvalStatement

SpecStmt == InitStmt /\ [][NextStmt]_vars

\* C25: scope entry and exit are balanced around every statement: when
\* evaler_eval_stmt has returned for a Block, For, If, Store or expression
\* statement, nested ones included, the current scope of the Universe is
\* the scope that was current when the evaluation started.
C25_ScopesBalanced ==
    (act.op = "evaler_eval_stmt" /\ evaler.fate = "running") =>
        evaler.universe.current = act.current

----------------------------------------------------------------------------
\* C26: no variable name is bound in two scopes of the chain from the
\* current scope to the global scope.  The scope a universe_enter_scope was
\* called in is the next scope of the chain of the scope it entered, so a
\* universe_set (the call of a Store, an assignment or a For) made right
\* after the call never binds, in the scope entered, a name that the scope
\* the call was made in binds: it overwrites that binding.
C26_NoShadowing ==
    [][ (act.op = "universe_enter_scope" /\ act'.op = "universe_set"
           /\ Binds(act.universe.scopes[act.universe.current], act'.name))
          => ~Binds(universe'.scopes[universe.current], act'.name) ]_vars

----------------------------------------------------------------------------
\* C27: EOF is absorbing in the token stream: once a call of lexer_next has
\* returned a token of kind EOF, every later call on the same lexer returns
\* a token of kind EOF.
C27_EofAbsorbing ==
    \A i, j \in 1..Len(toks) :
        (i < j /\ toks[i].kind = "EOF") => toks[j].kind = "EOF"

----------------------------------------------------------------------------
\* C29: a For statement leaves a variable of an enclosing scope that has the
\* name of its loop variable as it was: after var i = 7 and a loop over
\* 0..2 whose body only reads the loop variable, i is 7, whether the loop
\* variable is i or j.
C29_LoopVariableConfined ==
    (src \in LoopVarPrograms /\ pc = "done") => value = value_int(7)

----------------------------------------------------------------------------
(* The Int division harness: value_div on a pair of Ints.  given holds the *)
(* operands; the Evaler holds what the build makes of a signed overflow    *)
(* (the quotient INT_MIN / -1 is not an int32_t: the division wraps or the *)
(* process is stopped by the trap of the divide instruction).              *)

\* Ints at the ends of the 32-bit range, about zero, and between
DivInts == { INT_MIN, INT_MIN + 1, -7, -1, 0, 1, 2, 7, INT_MAX }

InitDiv ==
    /\ \E a \in DivInts, b \in DivInts :
          given = [a |-> value_int(a), b |-> value_int(b)]
    /\ \E overflow \in {"wrap", "trap"} :
          evaler = evaler_new(universe_new, overflow, "intact")
    /\ act = [op |-> "none"]
    /\ lexer = "none" /\ toks = <<>> /\ pc = "idle" /\ src = <<>>
    /\ ast = "none" /\ ip = 0 /\ value = "none"
    /\ result = "none" /\ universe = "none"

\* value_div(given.a, given.b)
IntDiv ==
    /\ act.op = "none"
    /\ LET r == Settle(value_div(given.a, given.b), evaler)
       IN  /\ evaler' = r.ev
           /\ value' = r.v
    /\ act' = [op |-> "value_div"]
    /\ UNCHANGED <<lexer, toks, pc, src, ast, ip, result, universe, given>>

NextDiv == IntDiv

SpecDiv == InitDiv /\ [][NextDiv]_vars

\* C30: Int division never traps: for every pair of 32-bit Ints, INT_MIN
\* and -1 included, value_div returns, and what it returns is an Int of the
\* 32-bit range or an Error.
C30_IntDivisionNeverTraps ==
    act.op = "value_div" =>
        /\ evaler.fate = "running"
        /\ \/ value.kind = "VAL_ERROR"
           \/ value.kind = "VAL_INT" /\ value.int_val \in INT_MIN..INT_MAX

====
